---- MODULE Spec2Model ----
(***************************************************************************)
(* A model of the SPIR-V reflection parser of spirv-reflect-rs             *)
(* (src/src/parser.rs).  Parser::parse runs thirteen stages over a slice   *)
(* of 32-bit words and fills a ShaderModule in place.  Every stage is an   *)
(* operator translated from its Rust function, and an action of the state  *)
(* machine applies it.                                                     *)
(*                                                                         *)
(* A u32 is the pair <<hi, lo>> of its 16-bit halves (TLC's integers are   *)
(* 32-bit signed and cannot hold 0xFFFFFFFF); an instruction's first word  *)
(* is then <<word_count, opcode>>.  Rust's usize values (indices, lengths) *)
(* are plain integers.  A string is the sequence of its bytes.             *)
(***************************************************************************)
EXTENDS Integers, Sequences, FiniteSets, TLC

VARIABLES
    spv_words,        \* the input slice, a sequence of u32
    beyond,           \* the bytes mapped in memory right after the slice
    overflow_checks,  \* build profile: TRUE = arithmetic overflow panics
    pc,               \* the statement of Parser::parse that runs next
    result,           \* "Running", or how parse ended
    error,            \* the Err string, "" when none
    stage,            \* the statement of Parser::parse that ran last
    self,             \* the Parser
    module            \* the target ShaderModule's internal record

vars == <<spv_words, beyond, overflow_checks, pc, result, error, stage, self, module>>

(***************************************************************************)
(* u32 arithmetic                                                          *)
(***************************************************************************)
Half == 65536

U32(n) == <<n \div Half, n % Half>>

U32_MAX == <<65535, 65535>>

U32_ZERO == <<0, 0>>

Hi(w) == w[1]

Lo(w) == w[2]

\* Indices at or above 2^30 lie beyond every buffer of the model; they are
\* collapsed to this one value.
UsizeFar == 1073741824

AsUsize(w) == IF w[1] >= 16384 THEN UsizeFar ELSE w[1] * Half + w[2]

U32Lt(a, b) == a[1] < b[1] \/ (a[1] = b[1] /\ a[2] < b[2])

U32Le(a, b) == a = b \/ U32Lt(a, b)

\* `x as i32`: the same bits read as two's complement; the pair
\* <<signed hi, lo>> orders as the i32 does.
AsI32(w) == <<IF w[1] >= 32768 THEN w[1] - Half ELSE w[1], w[2]>>

I32Lt(a, b) == a[1] < b[1] \/ (a[1] = b[1] /\ a[2] < b[2])

\* Wrapping operations with their overflow flag: [v |-> value, o |-> overflowed]
U32Add(a, b) ==
    LET lo == a[2] + b[2]
        hi == a[1] + b[1] + (lo \div Half)
    IN  [v |-> <<hi % Half, lo % Half>>, o |-> hi >= Half]

U32Sub(a, b) ==
    LET borrow == IF a[2] < b[2] THEN 1 ELSE 0
        lo == a[2] + borrow * Half - b[2]
        hi == a[1] - b[1] - borrow
    IN  [v |-> <<(hi + Half) % Half, lo>>, o |-> hi < 0]

Bytes4(w) == <<w[2] % 256, w[2] \div 256, w[1] % 256, w[1] \div 256>>

U32Mul(a, b) ==
    LET x == Bytes4(a)
        y == Bytes4(b)
        c0 == x[1] * y[1]
        c1 == x[1] * y[2] + x[2] * y[1] + (c0 \div 256)
        c2 == x[1] * y[3] + x[2] * y[2] + x[3] * y[1] + (c1 \div 256)
        c3 == x[1] * y[4] + x[2] * y[3] + x[3] * y[2] + x[4] * y[1] + (c2 \div 256)
        c4 == x[2] * y[4] + x[3] * y[3] + x[4] * y[2] + (c3 \div 256)
        c5 == x[3] * y[4] + x[4] * y[3]
        c6 == x[4] * y[4]
    IN  [v |-> <<(c3 % 256) * 256 + (c2 % 256), (c1 % 256) * 256 + (c0 % 256)>>,
         o |-> c4 # 0 \/ c5 # 0 \/ c6 # 0]

U32Div8(a) == <<a[1] \div 8, ((a[1] % 8) * Half + a[2]) \div 8>>

U32Max(a, b) == IF U32Lt(a, b) THEN b ELSE a

(***************************************************************************)
(* The vocabulary of spirv_headers the parser names                        *)
(***************************************************************************)
MAGIC_NUMBER == <<1827, 515>>   \* 0x07230203

STARTING_WORD == 5
SPIRV_WORD_SIZE == 4
SPIRV_BYTE_WIDTH == 8
SPIRV_DATA_ALIGN == 16

OpNop == 0
OpUndef == 1
OpSource == 3
OpName == 5
OpMemberName == 6
OpString == 7
OpEntryPoint == 15
OpTypeVoid == 19
OpTypeBool == 20
OpTypeInt == 21
OpTypeFloat == 22
OpTypeVector == 23
OpTypeMatrix == 24
OpTypeImage == 25
OpTypeSampler == 26
OpTypeSampledImage == 27
OpTypeArray == 28
OpTypeRuntimeArray == 29
OpTypeStruct == 30
OpTypeOpaque == 31
OpTypePointer == 32
OpTypeFunction == 33
OpTypeEvent == 34
OpTypeDeviceEvent == 35
OpTypeReserveId == 36
OpTypeQueue == 37
OpTypePipe == 38
OpTypeForwardPointer == 39
OpConstantTrue == 41
OpConstantFalse == 42
OpConstant == 43
OpConstantComposite == 44
OpConstantSampler == 45
OpConstantNull == 46
OpFunction == 54
OpFunctionEnd == 56
OpFunctionCall == 57
OpVariable == 59
OpLoad == 61
OpStore == 62
OpCopyMemory == 63
OpCopyMemorySized == 64
OpAccessChain == 65
OpInBoundsAccessChain == 66
OpPtrAccessChain == 67
OpArrayLength == 68
OpGenericPtrMemSemantics == 69
OpInBoundsPtrAccessChain == 70
OpDecorate == 71
OpMemberDecorate == 72
OpLabel == 248
OpReturn == 253
OpDecorateId == 332
OpTypeAccelerationStructureNV == 5341
OpDecorateString == 5632
OpMemberDecorateStringGOOGLE == 5633

\* spirv_headers::Op::from_u32 on the opcodes of the model's inputs: the
\* opcodes parser.rs names, OpNop and OpReturn.  9, 13 and 18 are numbers the
\* SPIR-V opcode table leaves unassigned.
OpTable ==
    {OpNop, OpUndef, OpSource, OpName, OpMemberName, OpString, OpEntryPoint,
     OpTypeVoid, OpTypeBool, OpTypeInt, OpTypeFloat, OpTypeVector, OpTypeMatrix,
     OpTypeImage, OpTypeSampler, OpTypeSampledImage, OpTypeArray,
     OpTypeRuntimeArray, OpTypeStruct, OpTypeOpaque, OpTypePointer,
     OpTypeFunction, OpTypeEvent, OpTypeDeviceEvent, OpTypeReserveId,
     OpTypeQueue, OpTypePipe, OpTypeForwardPointer, OpConstantTrue,
     OpConstantFalse, OpConstant, OpConstantComposite, OpConstantSampler,
     OpConstantNull, OpFunction, OpFunctionEnd, OpFunctionCall, OpVariable,
     OpLoad, OpStore, OpCopyMemory, OpCopyMemorySized, OpAccessChain,
     OpInBoundsAccessChain, OpPtrAccessChain, OpArrayLength,
     OpGenericPtrMemSemantics, OpInBoundsPtrAccessChain, OpDecorate,
     OpMemberDecorate, OpLabel, OpReturn, OpDecorateId,
     OpTypeAccelerationStructureNV, OpDecorateString,
     OpMemberDecorateStringGOOGLE}

OpFromU32(n) == IF n \in OpTable THEN <<n>> ELSE <<>>

PlainTypeOps ==
    {OpTypeVoid, OpTypeBool, OpTypeInt, OpTypeFloat, OpTypeVector, OpTypeMatrix,
     OpTypeSampler, OpTypeOpaque, OpTypeFunction, OpTypeEvent, OpTypeDeviceEvent,
     OpTypeReserveId, OpTypeQueue, OpTypePipe, OpTypeAccelerationStructureNV}

ConstantOps ==
    {OpConstantTrue, OpConstantFalse, OpConstant, OpConstantComposite,
     OpConstantSampler, OpConstantNull}

\* Storage classes 0..12 are the core ones; StorageClass::from_u32 is None on
\* the other numbers of the model's inputs.
StorageClassUniformConstant == 0
StorageClassInput == 1
StorageClassUniform == 2
StorageClassOutput == 3
StorageClassPrivate == 6
StorageClassPushConstant == 9
StorageClassStorageBuffer == 12
StorageClassLast == 12

StorageClassFromU32(w) ==
    IF w[1] = 0 /\ w[2] <= StorageClassLast THEN <<w[2]>> ELSE <<>>

(***************************************************************************)
(* Reading the input                                                       *)
(***************************************************************************)
\* spv_words[i], i counted from 0 as in Rust; an index at or past the length
\* panics, which every caller tests with InBounds first.
InBounds(ws, i) == i >= 0 /\ i < Len(ws)

Word(ws, i) == ws[i + 1]

\* The byte at byte offset k from the slice's start: little-endian inside the
\* slice, then the bytes of `beyond`, then unmapped memory (-1).
ByteAt(ws, mem, k) ==
    IF k < SPIRV_WORD_SIZE * Len(ws)
    THEN Bytes4(ws[(k \div SPIRV_WORD_SIZE) + 1])[(k % SPIRV_WORD_SIZE) + 1]
    ELSE IF k - SPIRV_WORD_SIZE * Len(ws) < Len(mem)
         THEN mem[k - SPIRV_WORD_SIZE * Len(ws) + 1]
         ELSE -1

\* CStr::from_ptr(p): the bytes from p up to the first NUL, wherever that is.
\* Reading past the slice is undefined behaviour: it finds what `beyond` holds
\* or faults on unmapped memory.
RECURSIVE CStrScan(_, _, _, _)
CStrScan(ws, mem, k, acc) ==
    LET b == ByteAt(ws, mem, k)
    IN  IF b = -1 THEN [res |-> "Fault", str |-> acc]
        ELSE IF b = 0 THEN [res |-> "Ok", str |-> acc]
        ELSE CStrScan(ws, mem, k + 1, Append(acc, b))

CStrFromPtr(ws, mem, word_start) == CStrScan(ws, mem, word_start * SPIRV_WORD_SIZE, <<>>)

\* to_str(): the model's strings are ASCII, or hold the byte 0xFF, which no
\* UTF-8 string contains.
IsUtf8(str) == \A i \in 1..Len(str) : str[i] < 128

\* CStr::to_string_lossy on the bytes the model's inputs hold (ASCII, and lone
\* bytes of 128 and more, each of which becomes U+FFFD).
REPLACEMENT_CHARACTER == 65533
ToStringLossy(str) ==
    [i \in 1..Len(str) |-> IF str[i] < 128 THEN str[i] ELSE REPLACEMENT_CHARACTER]

(***************************************************************************)
(* The parser's records, as their Default impls build them                 *)
(***************************************************************************)
DefaultNumberDecoration == [word_offset |-> 0, value |-> U32_MAX]

DefaultStringDecoration == [word_offset |-> 0, value |-> <<>>]

DefaultDecorations ==
    [is_block |-> FALSE, is_buffer_block |-> FALSE, is_row_major |-> FALSE,
     is_column_major |-> FALSE, is_noperspective |-> FALSE, is_flat |-> FALSE,
     is_non_writable |-> FALSE,
     set |-> DefaultNumberDecoration, binding |-> DefaultNumberDecoration,
     input_attachment_index |-> DefaultNumberDecoration,
     location |-> DefaultNumberDecoration, offset |-> DefaultNumberDecoration,
     uav_counter_buffer |-> DefaultNumberDecoration,
     semantic |-> DefaultStringDecoration,
     array_stride |-> U32_ZERO, matrix_stride |-> U32_ZERO, built_in |-> <<>>]

\* image_traits keeps dim and sampled, the two fields the classification of a
\* descriptor reads; depth, arrayed, ms and image_format are only copied.
DefaultParserNode ==
    [result_id |-> U32_ZERO, op |-> OpUndef, result_type_id |-> U32_ZERO,
     type_id |-> U32_ZERO, storage_class |-> StorageClassUniformConstant,
     word_offset |-> 0, word_count |-> 0, is_type |-> FALSE,
     array_traits |-> [element_type_id |-> U32_ZERO, length_id |-> U32_ZERO],
     image_traits |-> [sampled_type_id |-> U32_ZERO, dim |-> <<>>, sampled |-> U32_ZERO],
     image_type_id |-> U32_ZERO, name |-> <<>>,
     decorations |-> DefaultDecorations, member_count |-> U32_ZERO,
     member_names |-> <<>>, member_decorations |-> <<>>]

DefaultParser ==
    [nodes |-> <<>>, strings |-> <<>>, functions |-> <<>>,
     string_count |-> 0, type_count |-> 0, entry_point_count |-> 0,
     function_count |-> 0]

\* ShaderModule.internal before the call (the caller hands in a fresh module).
DefaultModule ==
    [source_language |-> <<>>, source_language_version |-> U32_ZERO,
     source_file_id |-> U32_ZERO, source_file |-> <<>>,
     type_descriptions |-> <<>>, descriptor_bindings |-> <<>>,
     push_constant_blocks |-> <<>>, entry_points |-> <<>>,
     entry_point_name |-> <<>>, entry_point_id |-> U32_ZERO,
     spirv_execution_model |-> <<>>, shader_stage |-> "Undefined",
     input_variables |-> <<>>, output_variables |-> <<>>]

\* What a stage hands back: how it ended and the two records it worked on.
Ok(p, m) == [res |-> "Ok", err |-> "", self |-> p, module |-> m]

Err(msg, p, m) == [res |-> "Err", err |-> msg, self |-> p, module |-> m]

Stop(kind, p, m) == [res |-> kind, err |-> "", self |-> p, module |-> m]

(***************************************************************************)
(* Parser::parse_nodes                                                     *)
(***************************************************************************)
\* The node-counting loop.  An instruction whose word count is 0 leaves
\* word_index where it is, and the loop never ends: -1.
RECURSIVE count_nodes(_, _, _)
count_nodes(ws, word_index, node_count) ==
    IF ~(word_index < Len(ws)) THEN node_count
    ELSE LET node_word_count == Hi(Word(ws, word_index))
         IN  IF node_word_count = 0 THEN -1
             ELSE count_nodes(ws, word_index + node_word_count, node_count + 1)

\* A node's own fields for the opcodes whose match arm writes only that node.
\* [res, err, node]
node_fields(ws, mem, checks, word_index, node) ==
    LET rd(k) == Word(ws, word_index + k)
        has(k) == InBounds(ws, word_index + k)
        ok(n) == [res |-> "Ok", err |-> "", node |-> n]
        panic == [res |-> "Panic", err |-> "", node |-> node]
        bad(msg) == [res |-> "Err", err |-> msg, node |-> node]
        op == node.op
    IN  IF op \in {OpName, OpMemberName} THEN
            LET member_offset == IF op = OpMemberName THEN 1 ELSE 0
                name_start == word_index + member_offset + 2
                s == CStrFromPtr(ws, mem, name_start)
            IN  IF s.res # "Ok" THEN [res |-> s.res, err |-> "", node |-> node]
                ELSE IF ~IsUtf8(s.str) THEN panic
                ELSE ok([node EXCEPT !.name = s.str])
        ELSE IF op = OpTypeStruct THEN
            LET d == U32Sub(U32(node.word_count), U32(2))
            IN  IF d.o /\ checks THEN panic
                ELSE IF ~has(1) THEN panic
                ELSE ok([node EXCEPT !.member_count = d.v, !.result_id = rd(1),
                                     !.is_type = TRUE])
        ELSE IF op \in PlainTypeOps THEN
            IF ~has(1) THEN panic
            ELSE ok([node EXCEPT !.result_id = rd(1), !.is_type = TRUE])
        ELSE IF op = OpTypeImage THEN
            IF ~has(8) THEN panic
            ELSE ok([node EXCEPT !.result_id = rd(1),
                                 !.image_traits = [sampled_type_id |-> rd(2),
                                                   dim |-> <<rd(3)>>,
                                                   sampled |-> rd(7)],
                                 !.is_type = TRUE])
        ELSE IF op = OpTypeSampledImage THEN
            IF ~has(2) THEN panic
            ELSE ok([node EXCEPT !.result_id = rd(1), !.image_type_id = rd(2),
                                 !.is_type = TRUE])
        ELSE IF op = OpTypeArray THEN
            IF ~has(3) THEN panic
            ELSE ok([node EXCEPT !.result_id = rd(1),
                                 !.array_traits = [element_type_id |-> rd(2),
                                                   length_id |-> rd(3)],
                                 !.is_type = TRUE])
        ELSE IF op = OpTypeRuntimeArray THEN
            IF ~has(2) THEN panic
            ELSE ok([node EXCEPT !.result_id = rd(1),
                                 !.array_traits.element_type_id = rd(2),
                                 !.is_type = TRUE])
        ELSE IF op = OpTypePointer THEN
            IF ~has(2) THEN panic
            ELSE IF StorageClassFromU32(rd(2)) = <<>>
                 THEN bad("Invalid SPIR-V storage class!")
            ELSE IF ~has(3) THEN panic
            ELSE ok([node EXCEPT !.result_id = rd(1),
                                 !.storage_class = StorageClassFromU32(rd(2))[1],
                                 !.type_id = rd(3), !.is_type = TRUE])
        ELSE IF op = OpTypeForwardPointer THEN
            IF ~has(2) THEN panic
            ELSE IF StorageClassFromU32(rd(2)) = <<>>
                 THEN bad("Invalid SPIR-V storage class!")
            ELSE ok([node EXCEPT !.result_id = rd(1),
                                 !.storage_class = StorageClassFromU32(rd(2))[1],
                                 !.is_type = TRUE])
        ELSE IF op \in ConstantOps \/ op = OpLoad THEN
            IF ~has(2) THEN panic
            ELSE ok([node EXCEPT !.result_type_id = rd(1), !.result_id = rd(2)])
        ELSE IF op = OpVariable THEN
            IF ~has(3) THEN panic
            ELSE IF StorageClassFromU32(rd(3)) = <<>>
                 THEN bad("Invalid SPIR-V storage class!")
            ELSE ok([node EXCEPT !.type_id = rd(1), !.result_id = rd(2),
                                 !.storage_class = StorageClassFromU32(rd(3))[1]])
        ELSE IF op = OpFunction THEN
            IF ~has(2) THEN panic
            ELSE ok([node EXCEPT !.result_id = rd(2)])
        ELSE ok(node)

\* One pass of the node-filling loop's body, for the node at word_index.
\* st = [res, err, self, module, function_node]; function_node -1 is usize::MAX.
node_step(ws, mem, checks, word_index, node_index, st) ==
    LET word == Word(ws, word_index)
        opt == OpFromU32(Lo(word))
        n0 == [st.self.nodes[node_index + 1] EXCEPT !.word_count = Hi(word),
                                                    !.word_offset = word_index]
        p0 == [st.self EXCEPT !.nodes[node_index + 1] = n0]
    IN  IF opt = <<>> THEN
            [st EXCEPT !.res = "Err", !.err = "Invalid SPIR-V op", !.self = p0]
        ELSE
        LET op == opt[1]
            n1 == [n0 EXCEPT !.op = op]
            p1 == [p0 EXCEPT !.nodes[node_index + 1] = n1]
            f == node_fields(ws, mem, checks, word_index, n1)
            \* the tail of the body: type_count
            done(p, m, fn) ==
                [st EXCEPT !.self = [p EXCEPT !.type_count =
                                        IF p.nodes[node_index + 1].is_type
                                        THEN @ + 1 ELSE @],
                           !.module = m, !.function_node = fn]
        IN  IF op = OpString THEN
                done([p1 EXCEPT !.string_count = @ + 1], st.module, st.function_node)
            ELSE IF op = OpSource THEN
                IF ~InBounds(ws, word_index + 2) THEN
                    [st EXCEPT !.res = "Panic", !.self = p1,
                               !.module = IF InBounds(ws, word_index + 1)
                                          THEN [st.module EXCEPT !.source_language =
                                                    <<Word(ws, word_index + 1)>>]
                                          ELSE st.module]
                ELSE
                LET m1 == [st.module EXCEPT
                               !.source_language = <<Word(ws, word_index + 1)>>,
                               !.source_language_version = Word(ws, word_index + 2)]
                IN  IF n1.word_count >= 4 THEN
                        IF ~InBounds(ws, word_index + 3)
                        THEN [st EXCEPT !.res = "Panic", !.self = p1, !.module = m1]
                        ELSE done(p1, [m1 EXCEPT !.source_file_id =
                                           Word(ws, word_index + 3)], st.function_node)
                    ELSE done(p1, m1, st.function_node)
            ELSE IF op = OpEntryPoint THEN
                done([p1 EXCEPT !.entry_point_count = @ + 1], st.module, st.function_node)
            ELSE IF op = OpLabel THEN
                IF st.function_node # -1 THEN
                    LET fnode == p1.nodes[st.function_node + 1]
                    IN  IF ~InBounds(ws, fnode.word_offset + 2)
                        THEN [st EXCEPT !.res = "Panic", !.self = p1]
                        ELSE done([p1 EXCEPT
                                     !.nodes[st.function_node + 1].result_id =
                                         Word(ws, fnode.word_offset + 2),
                                     !.function_count = @ + 1],
                                  st.module, st.function_node)
                ELSE done(p1, st.module, st.function_node)
            ELSE IF op = OpFunctionEnd THEN
                done(p1, st.module, -1)
            ELSE IF f.res # "Ok" THEN
                [st EXCEPT !.res = f.res, !.err = f.err, !.self = p1]
            ELSE done([p1 EXCEPT !.nodes[node_index + 1] = f.node], st.module,
                      IF op = OpFunction THEN node_index ELSE st.function_node)

RECURSIVE fill_nodes(_, _, _, _, _, _)
fill_nodes(ws, mem, checks, word_index, node_index, st) ==
    IF ~(word_index < Len(ws)) \/ st.res # "Ok" THEN st
    ELSE LET st1 == node_step(ws, mem, checks, word_index, node_index, st)
         IN  fill_nodes(ws, mem, checks,
                        word_index + st1.self.nodes[node_index + 1].word_count,
                        node_index + 1, st1)

parse_nodes(ws, mem, checks, p, m) ==
    LET node_count == count_nodes(ws, STARTING_WORD, 0)
    IN  IF node_count = -1 THEN Stop("Hang", p, m)
        ELSE
        LET p1 == [p EXCEPT !.nodes = [i \in 1..node_count |-> DefaultParserNode]]
        IN  IF node_count = 0
            THEN Err("No nodes found in SPIR-V binary, invalid!", p1, m)
            ELSE LET st == fill_nodes(ws, mem, checks, STARTING_WORD, 0,
                                      [res |-> "Ok", err |-> "", self |-> p1,
                                       module |-> m, function_node |-> -1])
                 IN  [res |-> st.res, err |-> st.err, self |-> st.self,
                      module |-> st.module]

(***************************************************************************)
(* Vec helpers                                                             *)
(***************************************************************************)
\* Lexicographic order of two integer sequences of one length: the order of
\* the keys a comparator closure compares.
RECURSIVE KeyLt(_, _)
KeyLt(a, b) ==
    IF a = <<>> THEN FALSE
    ELSE IF a[1] # b[1] THEN a[1] < b[1]
    ELSE KeyLt(Tail(a), Tail(b))

\* slice::sort_by: a stable sort, here by insertion, of the pairs <<key, x>>,
\* where key is what the comparator closure computes from x.
RECURSIVE InsertSorted(_, _)
InsertSorted(sorted, kx) ==
    IF sorted = <<>> THEN <<kx>>
    ELSE IF KeyLt(kx[1], sorted[Len(sorted)][1])
         THEN Append(InsertSorted(SubSeq(sorted, 1, Len(sorted) - 1), kx),
                     sorted[Len(sorted)])
         ELSE Append(sorted, kx)

RECURSIVE SortPairs(_)
SortPairs(v) ==
    IF v = <<>> THEN <<>>
    ELSE InsertSorted(SortPairs(SubSeq(v, 1, Len(v) - 1)), v[Len(v)])

SortByKey(v, keys) ==
    LET sorted == SortPairs([i \in 1..Len(v) |-> <<keys[i], v[i]>>])
    IN  [i \in 1..Len(v) |-> sorted[i][2]]

\* Vec::dedup: drops an element equal to the one before it.
RECURSIVE Dedup(_)
Dedup(v) ==
    IF Len(v) <= 1 THEN v
    ELSE LET d == Dedup(SubSeq(v, 1, Len(v) - 1))
         IN  IF d[Len(d)] = v[Len(v)] THEN d ELSE Append(d, v[Len(v)])

\* Parser::find_node: the index of the first node with this result_id, -1 for None.
RECURSIVE find_node_from(_, _, _)
find_node_from(nodes, result_id, node_index) ==
    IF node_index >= Len(nodes) THEN -1
    ELSE IF nodes[node_index + 1].result_id = result_id THEN node_index
    ELSE find_node_from(nodes, result_id, node_index + 1)

find_node(nodes, result_id) == find_node_from(nodes, result_id, 0)

(***************************************************************************)
(* Parser::parse_strings                                                   *)
(***************************************************************************)
RECURSIVE collect_strings(_, _, _, _, _)
collect_strings(ws, mem, p, m, node_index) ==
    IF node_index >= Len(p.nodes) THEN Ok(p, m)
    ELSE LET node == p.nodes[node_index + 1]
         IN  IF node.op # OpString THEN collect_strings(ws, mem, p, m, node_index + 1)
             ELSE IF Len(p.strings) >= p.string_count
             THEN Err("Count mismatch while parsing strings.", p, m)
             ELSE LET s == CStrFromPtr(ws, mem, node.word_offset + 2)
                  IN  IF s.res # "Ok" THEN Stop(s.res, p, m)
                      ELSE IF ~IsUtf8(s.str) THEN Stop("Panic", p, m)
                      ELSE IF ~InBounds(ws, node.word_offset + 1) THEN Stop("Panic", p, m)
                      ELSE collect_strings(ws, mem,
                               [p EXCEPT !.strings = Append(@,
                                   [result_id |-> Word(ws, node.word_offset + 1),
                                    string |-> s.str])],
                               m, node_index + 1)

parse_strings(ws, mem, p, m) ==
    IF p.string_count > 0 /\ Len(ws) > 0 /\ Len(p.nodes) > 0 THEN
        LET r == collect_strings(ws, mem, p, m, 0)
            hits == {i \in 1..Len(r.self.strings) :
                        r.self.strings[i].result_id = m.source_file_id}
        IN  IF r.res # "Ok" \/ hits = {} THEN r
            ELSE Ok(r.self, [m EXCEPT !.source_file =
                       r.self.strings[CHOOSE i \in hits : \A j \in hits : i <= j].string])
    ELSE Ok(p, m)

(***************************************************************************)
(* Parser::parse_function and Parser::parse_functions                      *)
(***************************************************************************)
AccessOps ==
    {OpLoad, OpAccessChain, OpInBoundsAccessChain, OpPtrAccessChain, OpArrayLength,
     OpGenericPtrMemSemantics, OpInBoundsPtrAccessChain}

\* The guard that opens the body of both loops of parse_function:
\* `if node_op != FunctionEnd { continue; }`.
function_scan_skips(node_op) == node_op # OpFunctionEnd

\* The second loop of parse_function (the first only counts, for reserve()).
\* fn = [res, callees, accessed]
RECURSIVE function_scan(_, _, _, _)
function_scan(ws, nodes, node_index, fn) ==
    IF node_index >= Len(nodes) \/ fn.res # "Ok" THEN fn
    ELSE
    LET node_op == nodes[node_index + 1].op
        word_offset == nodes[node_index + 1].word_offset
        next(f) == function_scan(ws, nodes, node_index + 1, f)
    IN  IF function_scan_skips(node_op) THEN next(fn)
        ELSE IF node_op = OpFunctionCall THEN
            IF ~InBounds(ws, word_offset + 3) THEN [fn EXCEPT !.res = "Panic"]
            ELSE next([fn EXCEPT !.callees = Append(@,
                          [callee |-> Word(ws, word_offset + 3), function |-> -1])])
        ELSE IF node_op \in AccessOps THEN
            IF ~InBounds(ws, word_offset + 3) THEN [fn EXCEPT !.res = "Panic"]
            ELSE next([fn EXCEPT !.accessed = Append(@, Word(ws, word_offset + 3))])
        ELSE IF node_op = OpStore THEN
            IF ~InBounds(ws, word_offset + 2) THEN [fn EXCEPT !.res = "Panic"]
            ELSE next([fn EXCEPT !.accessed = Append(@, Word(ws, word_offset + 2))])
        ELSE IF node_op \in {OpCopyMemory, OpCopyMemorySized} THEN
            IF ~InBounds(ws, word_offset + 3) THEN [fn EXCEPT !.res = "Panic"]
            ELSE next([fn EXCEPT !.accessed =
                          @ \o <<Word(ws, word_offset + 2), Word(ws, word_offset + 3)>>])
        ELSE next(fn)

\* [res, function]
parse_function(ws, nodes, function_node_index, first_label_index) ==
    LET fn == function_scan(ws, nodes, first_label_index,
                            [res |-> "Ok", callees |-> <<>>, accessed |-> <<>>])
    IN  [res |-> fn.res,
         function |-> [id |-> nodes[function_node_index + 1].result_id,
                       callees |-> Dedup(SortByKey(fn.callees,
                                       [i \in 1..Len(fn.callees) |-> fn.callees[i].callee])),
                       accessed |-> Dedup(SortByKey(fn.accessed, fn.accessed))]]

\* The inner scan of parse_functions: from the OpFunction node to the first
\* OpLabel (a definition) or OpFunctionEnd (a declaration).  [definition, at]
RECURSIVE find_first_label(_, _)
find_first_label(nodes, sub_node_index) ==
    IF sub_node_index >= Len(nodes)
    THEN [definition |-> FALSE, at |-> Len(nodes) - 1]
    ELSE IF nodes[sub_node_index + 1].op = OpLabel
    THEN [definition |-> TRUE, at |-> sub_node_index]
    ELSE IF nodes[sub_node_index + 1].op = OpFunctionEnd
    THEN [definition |-> FALSE, at |-> sub_node_index]
    ELSE find_first_label(nodes, sub_node_index + 1)

RECURSIVE collect_functions(_, _, _, _)
collect_functions(ws, p, m, node_index) ==
    IF node_index >= Len(p.nodes) THEN Ok(p, m)
    ELSE IF p.nodes[node_index + 1].op # OpFunction
    THEN collect_functions(ws, p, m, node_index + 1)
    ELSE LET l == find_first_label(p.nodes, node_index)
         IN  IF ~l.definition THEN collect_functions(ws, p, m, node_index + 1)
             ELSE LET f == parse_function(ws, p.nodes, node_index, l.at)
                  IN  IF f.res # "Ok" THEN Stop(f.res, p, m)
                      ELSE collect_functions(ws,
                               [p EXCEPT !.functions = Append(@, f.function)],
                               m, node_index + 1)

\* The while loop that resolves one callee: [res, at]
RECURSIVE link_callee(_, _, _, _)
link_callee(functions, function_count, callee_id, callee_function) ==
    IF callee_function >= Len(functions) THEN [res |-> "Panic", at |-> callee_function]
    ELSE IF functions[callee_function + 1].id = callee_id
    THEN [res |-> "Ok", at |-> callee_function]
    ELSE IF callee_function + 1 >= function_count
    THEN [res |-> "Err", at |-> callee_function + 1]
    ELSE link_callee(functions, function_count, callee_id, callee_function + 1)

\* The callees of one function, callee_function carried from one to the next.
RECURSIVE link_callees(_, _, _, _, _)
link_callees(functions, function_count, callees, callee_index, callee_function) ==
    IF callee_index >= Len(callees) THEN [res |-> "Ok", callees |-> callees]
    ELSE LET l == link_callee(functions, function_count,
                              callees[callee_index + 1].callee, callee_function)
         IN  IF l.res # "Ok" THEN [res |-> l.res, callees |-> callees]
             ELSE link_callees(functions, function_count,
                               [callees EXCEPT ![callee_index + 1].function = l.at],
                               callee_index + 1, l.at)

RECURSIVE link_functions(_, _, _)
link_functions(p, m, function_index) ==
    IF function_index >= Len(p.functions) THEN Ok(p, m)
    ELSE LET l == link_callees(p.functions, p.function_count,
                               p.functions[function_index + 1].callees, 0, 0)
             p1 == [p EXCEPT !.functions[function_index + 1].callees = l.callees]
         IN  IF l.res = "Err" THEN Err("Invalid SPIR-V ID reference", p1, m)
             ELSE IF l.res # "Ok" THEN Stop(l.res, p1, m)
             ELSE link_functions(p1, m, function_index + 1)

\* functions.sort_by: `a.id as i32` against `b.id as i32`
sort_functions(functions) ==
    SortByKey(functions, [i \in 1..Len(functions) |-> AsI32(functions[i].id)])

parse_functions(ws, p, m) ==
    LET r == collect_functions(ws, p, m, 0)
    IN  IF r.res # "Ok" THEN r
        ELSE link_functions([r.self EXCEPT !.functions = sort_functions(@)], m, 0)

(***************************************************************************)
(* Parser::parse_member_counts and Parser::parse_names                     *)
(***************************************************************************)
RECURSIVE count_members(_, _, _, _, _)
count_members(ws, checks, p, m, node_index) ==
    IF node_index >= Len(p.nodes) THEN Ok(p, m)
    ELSE
    LET op == p.nodes[node_index + 1].op
        word_offset == p.nodes[node_index + 1].word_offset
    IN  IF op # OpMemberName /\ op # OpMemberDecorate
        THEN count_members(ws, checks, p, m, node_index + 1)
        ELSE IF ~InBounds(ws, word_offset + 2) THEN Stop("Panic", p, m)
        ELSE
        LET target_id == Word(ws, word_offset + 1)
            member_index == Word(ws, word_offset + 2)
            target_node_index == find_node(p.nodes, target_id)
            next == U32Add(member_index, U32(1))
        IN  IF target_node_index = -1
            THEN count_members(ws, checks, p, m, node_index + 1)
            ELSE IF next.o /\ checks THEN Stop("Panic", p, m)
            ELSE count_members(ws, checks,
                     [p EXCEPT !.nodes[target_node_index + 1].member_count =
                                   U32Max(@, next.v)],
                     m, node_index + 1)

\* Vec::resize of an empty vector: n copies of the value.
Resized(n, value) == [i \in 1..n |-> value]

parse_member_counts(ws, checks, p, m) ==
    LET r == count_members(ws, checks, p, m, 0)
        nodes == r.self.nodes
    IN  IF r.res # "Ok" THEN r
        \* a vector of 2^30 or more Decorations is more than memory holds
        ELSE IF \E i \in 1..Len(nodes) : AsUsize(nodes[i].member_count) >= UsizeFar
        THEN Stop("Abort", r.self, m)
        ELSE Ok([r.self EXCEPT !.nodes =
                    [i \in 1..Len(nodes) |->
                        IF nodes[i].member_count = U32_ZERO THEN nodes[i]
                        ELSE [nodes[i] EXCEPT
                                !.member_names =
                                    Resized(AsUsize(nodes[i].member_count), <<>>),
                                !.member_decorations =
                                    Resized(AsUsize(nodes[i].member_count),
                                            DefaultDecorations)]]], m)

RECURSIVE parse_names_from(_, _, _, _)
parse_names_from(ws, p, m, node_index) ==
    IF node_index >= Len(p.nodes) THEN Ok(p, m)
    ELSE
    LET node_op == p.nodes[node_index + 1].op
        word_offset == p.nodes[node_index + 1].word_offset
    IN  IF node_op # OpMemberName /\ node_op # OpName
        THEN parse_names_from(ws, p, m, node_index + 1)
        ELSE IF ~InBounds(ws, word_offset + 1) THEN Stop("Panic", p, m)
        ELSE
        LET target_node_index == find_node(p.nodes, Word(ws, word_offset + 1))
            node_name == p.nodes[node_index + 1].name
        IN  IF target_node_index = -1 THEN parse_names_from(ws, p, m, node_index + 1)
            ELSE IF node_op = OpMemberName THEN
                IF ~InBounds(ws, word_offset + 2) THEN Stop("Panic", p, m)
                ELSE LET member_index == AsUsize(Word(ws, word_offset + 2))
                     IN  IF member_index >= Len(p.nodes[target_node_index + 1].member_names)
                         THEN Stop("Panic", p, m)
                         ELSE parse_names_from(ws,
                                  [p EXCEPT !.nodes[target_node_index + 1]
                                               .member_names[member_index + 1] = node_name],
                                  m, node_index + 1)
            ELSE parse_names_from(ws,
                     [p EXCEPT !.nodes[target_node_index + 1].name = node_name],
                     m, node_index + 1)

parse_names(ws, p, m) == parse_names_from(ws, p, m, 0)

(***************************************************************************)
(* Parser::parse_decorations                                               *)
(***************************************************************************)
DecorationRelaxedPrecision == 0
DecorationSpecId == 1
DecorationBlock == 2
DecorationBufferBlock == 3
DecorationRowMajor == 4
DecorationColMajor == 5
DecorationArrayStride == 6
DecorationMatrixStride == 7
DecorationBuiltIn == 11
DecorationNoPerspective == 13
DecorationFlat == 14
DecorationNonWritable == 24
DecorationLocation == 30
DecorationBinding == 33
DecorationDescriptorSet == 34
DecorationOffset == 35
DecorationInputAttachmentIndex == 43
DecorationHlslCounterBufferGOOGLE == 5634
DecorationHlslSemanticGOOGLE == 5635

AffectsReflection ==
    {DecorationBlock, DecorationBufferBlock, DecorationColMajor, DecorationRowMajor,
     DecorationArrayStride, DecorationMatrixStride, DecorationBuiltIn,
     DecorationNoPerspective, DecorationFlat, DecorationNonWritable,
     DecorationLocation, DecorationBinding, DecorationDescriptorSet,
     DecorationOffset, DecorationInputAttachmentIndex,
     DecorationHlslCounterBufferGOOGLE, DecorationHlslSemanticGOOGLE}

\* Decoration::from_u32 on the decorations of the model's inputs: those above;
\* 12 and 27 are numbers the SPIR-V decoration table leaves unassigned.
DecorationFromU32(w) ==
    IF w[1] = 0 /\ w[2] \in AffectsReflection
                           \cup {DecorationRelaxedPrecision, DecorationSpecId}
    THEN <<w[2]>> ELSE <<>>

\* BuiltIn::from_u32 on the built-ins of the model's inputs: 0 (Position) and
\* 1 (PointSize) are built-ins, 2 is unassigned.
BuiltInFromU32(w) == IF w[1] = 0 /\ w[2] <= 1 THEN <<w[2]>> ELSE <<>>

ValueDecorations ==
    {DecorationArrayStride, DecorationMatrixStride, DecorationBuiltIn,
     DecorationLocation, DecorationBinding, DecorationDescriptorSet,
     DecorationOffset, DecorationInputAttachmentIndex,
     DecorationHlslCounterBufferGOOGLE, DecorationHlslSemanticGOOGLE}

\* The word offset a numbered decoration records beside its value.
decoration_value_offset(word_offset, member_offset) == word_offset + member_offset + 3

\* A value stored with the offset of the word before the one it was read from.
number_decoration_one_short(value, value_offset) ==
    [value |-> value, word_offset |-> value_offset - 1]

\* The two assignments of a numeric decoration's arm: the value read at the
\* offset, and the offset.
number_decoration(value, value_offset) ==
    [value |-> value, word_offset |-> value_offset]

\* The inner match of parse_decorations on one Decorations record; value is the
\* word at value_offset, semantic the string an HlslSemanticGOOGLE reads.
decorate(d, decoration, value, value_offset, semantic) ==
    LET number == number_decoration(value, value_offset)
    IN  CASE decoration = DecorationBlock -> [d EXCEPT !.is_block = TRUE]
          [] decoration = DecorationBufferBlock -> [d EXCEPT !.is_buffer_block = TRUE]
          [] decoration = DecorationColMajor -> [d EXCEPT !.is_column_major = TRUE]
          [] decoration = DecorationRowMajor -> [d EXCEPT !.is_row_major = TRUE]
          [] decoration = DecorationArrayStride -> [d EXCEPT !.array_stride = value]
          [] decoration = DecorationMatrixStride -> [d EXCEPT !.matrix_stride = value]
          [] decoration = DecorationBuiltIn -> [d EXCEPT !.built_in = BuiltInFromU32(value)]
          [] decoration = DecorationNoPerspective -> [d EXCEPT !.is_noperspective = TRUE]
          [] decoration = DecorationFlat -> [d EXCEPT !.is_flat = TRUE]
          [] decoration = DecorationNonWritable -> [d EXCEPT !.is_non_writable = TRUE]
          [] decoration = DecorationLocation -> [d EXCEPT !.location = number]
          [] decoration = DecorationBinding -> [d EXCEPT !.binding = number]
          [] decoration = DecorationDescriptorSet -> [d EXCEPT !.set = number]
          [] decoration = DecorationOffset -> [d EXCEPT !.offset = number]
          [] decoration = DecorationInputAttachmentIndex ->
                 [d EXCEPT !.input_attachment_index = number]
          [] decoration = DecorationHlslCounterBufferGOOGLE ->
                 [d EXCEPT !.uav_counter_buffer = number]
          [] decoration = DecorationHlslSemanticGOOGLE ->
                 [d EXCEPT !.semantic = [value |-> semantic, word_offset |-> value_offset]]
          [] OTHER -> d

DecorateOps ==
    {OpDecorate, OpMemberDecorate, OpDecorateId, OpDecorateString,
     OpMemberDecorateStringGOOGLE}

RECURSIVE parse_decorations_from(_, _, _, _, _)
parse_decorations_from(ws, mem, p, m, node_index) ==
    IF node_index >= Len(p.nodes) THEN Ok(p, m)
    ELSE
    LET node_op == p.nodes[node_index + 1].op
        word_offset == p.nodes[node_index + 1].word_offset
        member_offset == IF node_op = OpMemberDecorate THEN 1 ELSE 0
        next(q) == parse_decorations_from(ws, mem, q, m, node_index + 1)
    IN  IF node_op \notin DecorateOps THEN next(p)
        ELSE IF ~InBounds(ws, word_offset + member_offset + 2) THEN Stop("Panic", p, m)
        ELSE
        LET dec == DecorationFromU32(Word(ws, word_offset + member_offset + 2))
        IN  IF dec = <<>> THEN Err("Invalid SPIR-V decoration", p, m)
            ELSE IF dec[1] \notin AffectsReflection THEN next(p)
            ELSE
            LET decoration == dec[1]
                target_node_index == find_node(p.nodes, Word(ws, word_offset + 1))
            IN  IF target_node_index = -1 THEN Err("Invalid SPIR-V ID reference", p, m)
                ELSE
                LET target_node == p.nodes[target_node_index + 1]
                    is_member == node_op = OpMemberDecorate
                    member_index == AsUsize(Word(ws, word_offset + 2))
                    value_offset == decoration_value_offset(word_offset, member_offset)
                    needs_value == decoration \in ValueDecorations
                    \* the semantic's pointer is spv_words + value_offset / 4 words
                    sem == IF decoration = DecorationHlslSemanticGOOGLE
                           THEN CStrFromPtr(ws, mem, value_offset \div SPIRV_WORD_SIZE)
                           ELSE [res |-> "Ok", str |-> <<>>]
                    semantic == ToStringLossy(sem.str)
                IN  IF is_member /\ member_index >= Len(target_node.member_decorations)
                    THEN Stop("Panic", p, m)
                    ELSE IF needs_value /\ decoration # DecorationHlslSemanticGOOGLE
                            /\ ~InBounds(ws, value_offset)
                    THEN Stop("Panic", p, m)
                    ELSE IF sem.res # "Ok" THEN Stop(sem.res, p, m)
                    ELSE
                    LET value == IF InBounds(ws, value_offset)
                                 THEN Word(ws, value_offset) ELSE U32_ZERO
                    IN  IF is_member
                        THEN next([p EXCEPT !.nodes[target_node_index + 1]
                                               .member_decorations[member_index + 1] =
                                        decorate(@, decoration, value, value_offset, semantic)])
                        ELSE next([p EXCEPT !.nodes[target_node_index + 1].decorations =
                                        decorate(@, decoration, value, value_offset, semantic)])

parse_decorations(ws, mem, p, m) == parse_decorations_from(ws, mem, p, m, 0)

(***************************************************************************)
(* Parser::apply_decorations, Parser::parse_type and Parser::parse_types   *)
(***************************************************************************)
apply_decorations(decorations) ==
    (IF decorations.is_block THEN {"BLOCK"} ELSE {})
    \cup (IF decorations.is_buffer_block THEN {"BUFFER_BLOCK"} ELSE {})
    \cup (IF decorations.is_row_major THEN {"ROW_MAJOR"} ELSE {})
    \cup (IF decorations.is_column_major THEN {"COLUMN_MAJOR"} ELSE {})
    \cup (IF decorations.built_in # <<>> THEN {"BUILT_IN"} ELSE {})
    \cup (IF decorations.is_noperspective THEN {"NO_PERSPECTIVE"} ELSE {})
    \cup (IF decorations.is_flat THEN {"FLAT"} ELSE {})
    \cup (IF decorations.is_non_writable THEN {"NON_WRITABLE"} ELSE {})

\* Dim::from_u32: 1D, 2D, 3D, Cube, Rect, Buffer, SubpassData.
DimBuffer == 5
DimSubpassData == 6
DimFromU32(w) == IF w[1] = 0 /\ w[2] <= DimSubpassData THEN <<w[2]>> ELSE <<>>

\* ImageFormat::from_u32 on the formats of the model's inputs (0, Unknown, to
\* 39, R8ui, are formats of every SPIR-V version).
ImageFormatR8ui == 39
ImageFormatFromU32(w) == IF w[1] = 0 /\ w[2] <= ImageFormatR8ui THEN <<w[2]>> ELSE <<>>

\* ReflectTypeDescription::default(); an unset id is u32::MAX.
DefaultTypeDescription ==
    [id |-> U32_MAX, op |-> OpUndef, type_name |-> <<>>, struct_member_name |-> <<>>,
     storage_class |-> <<>>, type_flags |-> {}, decoration_flags |-> {},
     traits |-> [numeric |-> [scalar |-> [width |-> U32_ZERO, signedness |-> U32_ZERO],
                              vector |-> [component_count |-> U32_ZERO],
                              matrix |-> [column_count |-> U32_ZERO, row_count |-> U32_ZERO,
                                          stride |-> U32_ZERO]],
                 image |-> [dim |-> <<>>, depth |-> U32_ZERO, arrayed |-> U32_ZERO,
                            ms |-> U32_ZERO, sampled |-> U32_ZERO, image_format |-> <<>>],
                 array |-> [dims |-> <<>>, stride |-> U32_ZERO]],
     members |-> <<>>]

\* Vec::resize: truncates, or grows with copies of the value.
Resize(v, n, value) == [i \in 1..n |-> IF i <= Len(v) THEN v[i] ELSE value]

TdOk(td) == [res |-> "Ok", err |-> "", td |-> td]
TdErr(td) == [res |-> "Err", err |-> "Invalid SPIR-V ID reference", td |-> td]
TdStop(kind, td) == [res |-> kind, err |-> "", td |-> td]

\* parse_type leaves the name of the outermost named node.
type_named(nodes, node_index, r) ==
    IF r.res = "Ok" /\ r.td.type_name = <<>>
    THEN [r EXCEPT !.td.type_name = nodes[node_index + 1].name]
    ELSE r

RECURSIVE parse_type(_, _, _, _, _, _)
RECURSIVE parse_struct_members(_, _, _, _, _, _, _)

\* depth counts the frames left before the recursion has visited some node
\* twice on one path, from where it repeats itself until the stack is used up.
parse_type(ws, nodes, depth, node_index, struct_member_decorations, type_description) ==
    LET node == nodes[node_index + 1]
        word_offset == node.word_offset
        td0 == [type_description EXCEPT
                  !.members = Resize(@, AsUsize(node.member_count), DefaultTypeDescription)]
        td1 == IF td0.id = U32_MAX
               THEN [td0 EXCEPT !.id = node.result_id, !.op = node.op,
                                !.decoration_flags = {}]
               ELSE td0
        td == [td1 EXCEPT !.decoration_flags = @ \cup apply_decorations(node.decorations)]
        flagged(f) == [td EXCEPT !.type_flags = @ \cup f]
        into(next_id, t) ==
            LET next_node_index == find_node(nodes, next_id)
            IN  IF next_node_index = -1 THEN TdErr(t)
                ELSE parse_type(ws, nodes, depth - 1, next_node_index, <<>>, t)
        reads(k) == InBounds(ws, word_offset + k)
        W(k) == Word(ws, word_offset + k)
        r ==
          CASE node.op = OpTypeVoid -> TdOk(flagged({"VOID"}))
            [] node.op = OpTypeBool -> TdOk(flagged({"BOOL"}))
            [] node.op = OpTypeSampler -> TdOk(flagged({"EXTERNAL_SAMPLER"}))
            [] node.op = OpTypeInt ->
                 IF ~reads(3) THEN TdStop("Panic", flagged({"INT"}))
                 ELSE TdOk([flagged({"INT"}) EXCEPT
                              !.traits.numeric.scalar.width = W(2),
                              !.traits.numeric.scalar.signedness = W(3)])
            [] node.op = OpTypeFloat ->
                 IF ~reads(2) THEN TdStop("Panic", flagged({"FLOAT"}))
                 ELSE TdOk([flagged({"FLOAT"}) EXCEPT
                              !.traits.numeric.scalar.width = W(2)])
            [] node.op = OpTypeVector ->
                 IF ~reads(3) THEN TdStop("Panic", flagged({"VECTOR"}))
                 ELSE into(W(2), [flagged({"VECTOR"}) EXCEPT
                                    !.traits.numeric.vector.component_count = W(3)])
            [] node.op = OpTypeMatrix ->
                 IF ~reads(3) THEN TdStop("Panic", flagged({"MATRIX"}))
                 ELSE
                 LET sub == into(W(2), [flagged({"MATRIX"}) EXCEPT
                                          !.traits.numeric.matrix.column_count = W(3)])
                     stride ==
                        IF struct_member_decorations # <<>>
                        THEN nodes[struct_member_decorations[1] + 1]
                               .member_decorations[struct_member_decorations[2] + 1]
                               .matrix_stride
                        ELSE node.decorations.matrix_stride
                 IN  IF sub.res # "Ok" THEN sub
                     ELSE TdOk([sub.td EXCEPT
                                  !.traits.numeric.matrix.row_count =
                                      sub.td.traits.numeric.vector.component_count,
                                  !.traits.numeric.matrix.stride = stride])
            [] node.op = OpTypeImage ->
                 IF ~reads(8) THEN TdStop("Panic", flagged({"EXTERNAL_IMAGE"}))
                 ELSE TdOk([flagged({"EXTERNAL_IMAGE"}) EXCEPT
                              !.traits.image = [dim |-> DimFromU32(W(3)), depth |-> W(4),
                                                arrayed |-> W(5), ms |-> W(6),
                                                sampled |-> W(7),
                                                image_format |-> ImageFormatFromU32(W(8))]])
            [] node.op = OpTypeSampledImage ->
                 IF ~reads(2) THEN TdStop("Panic", flagged({"EXTERNAL_SAMPLED_IMAGE"}))
                 ELSE into(W(2), flagged({"EXTERNAL_SAMPLED_IMAGE"}))
            [] node.op = OpTypeArray ->
                 IF ~reads(3) THEN TdStop("Panic", flagged({"ARRAY"}))
                 ELSE
                 LET t == [flagged({"ARRAY"}) EXCEPT
                             !.traits.array.stride = node.decorations.array_stride]
                     length_node_index == find_node(nodes, W(3))
                 IN  IF length_node_index = -1 THEN TdErr(t)
                     ELSE
                     LET at == nodes[length_node_index + 1].word_offset + 3
                     IN  IF ~InBounds(ws, at) THEN TdStop("Panic", t)
                         ELSE into(W(2), [t EXCEPT !.traits.array.dims =
                                                       Append(@, Word(ws, at))])
            [] node.op = OpTypeRuntimeArray ->
                 IF ~reads(2) THEN TdStop("Panic", td) ELSE into(W(2), td)
            [] node.op = OpTypeStruct ->
                 parse_struct_members(ws, nodes, depth, node_index, 2, 0,
                                      flagged({"STRUCT", "EXTERNAL_BLOCK"}))
            [] node.op = OpTypePointer ->
                 IF ~reads(2) THEN TdStop("Panic", td)
                 ELSE
                 LET t == [td EXCEPT !.storage_class = StorageClassFromU32(W(2))]
                 IN  IF t.storage_class = <<>> THEN TdErr(t)
                     ELSE IF ~reads(3) THEN TdStop("Panic", t)
                     ELSE into(W(3), t)
            [] OTHER -> TdOk(td)
    IN  IF depth = 0 THEN TdStop("Abort", type_description)
        ELSE type_named(nodes, node_index, r)

parse_struct_members(ws, nodes, depth, node_index, word_index, member_index, td) ==
    LET node == nodes[node_index + 1]
    IN  IF word_index >= node.word_count THEN TdOk(td)
        ELSE IF ~InBounds(ws, node.word_offset + word_index) THEN TdStop("Panic", td)
        ELSE
        LET member_id == Word(ws, node.word_offset + word_index)
            member_node_index == find_node(nodes, member_id)
        IN  IF member_node_index = -1 THEN TdErr(td)
            ELSE IF member_index >= Len(td.members) THEN TdStop("Panic", td)
            ELSE
            LET member == [td.members[member_index + 1] EXCEPT
                             !.id = member_id, !.op = nodes[member_node_index + 1].op]
                sub == parse_type(ws, nodes, depth - 1, member_node_index,
                                  <<node_index, member_index>>, member)
            IN  IF sub.res # "Ok"
                THEN [sub EXCEPT !.td = [td EXCEPT !.members[member_index + 1] = sub.td]]
                ELSE parse_struct_members(ws, nodes, depth, node_index,
                         word_index + 1, member_index + 1,
                         [td EXCEPT !.members[member_index + 1] =
                             [sub.td EXCEPT !.struct_member_name =
                                 node.member_names[member_index + 1]]])

\* The frames a walk needs before it is on some node for the second time.
TypeDepth(nodes) == Len(nodes) + 1

RECURSIVE parse_types_from(_, _, _, _)
parse_types_from(ws, p, m, node_index) ==
    IF node_index >= Len(p.nodes) THEN Ok(p, m)
    ELSE IF ~p.nodes[node_index + 1].is_type
    THEN parse_types_from(ws, p, m, node_index + 1)
    ELSE
    LET r == parse_type(ws, p.nodes, TypeDepth(p.nodes), node_index, <<>>,
                        DefaultTypeDescription)
    IN  IF r.res # "Ok" THEN [res |-> r.res, err |-> r.err, self |-> p, module |-> m]
        ELSE parse_types_from(ws, p,
                 [m EXCEPT !.type_descriptions = Append(@, r.td)], node_index + 1)

parse_types(ws, p, m) == parse_types_from(ws, p, m, 0)

(***************************************************************************)
(* Parser::parse_descriptor_bindings                                       *)
(***************************************************************************)
\* ReflectTypeFlags masks: the external kinds, and a sampled image, whose
\* description carries the flag of OpTypeSampledImage and that of its image.
EXTERNAL_MASK ==
    {"EXTERNAL_IMAGE", "EXTERNAL_SAMPLER", "EXTERNAL_SAMPLED_IMAGE", "EXTERNAL_BLOCK"}
SAMPLED_MASK == {"EXTERNAL_IMAGE", "EXTERNAL_SAMPLED_IMAGE"}

\* ShaderModuleInternal::find_type: the index of the first type description
\* with this id, -1 for None.
RECURSIVE find_type_from(_, _, _)
find_type_from(type_descriptions, type_id, type_index) ==
    IF type_index >= Len(type_descriptions) THEN -1
    ELSE IF type_descriptions[type_index + 1].id = type_id THEN type_index
    ELSE find_type_from(type_descriptions, type_id, type_index + 1)

find_type(type_descriptions, type_id) == find_type_from(type_descriptions, type_id, 0)

DefaultImageTraits ==
    [dim |-> <<>>, depth |-> U32_ZERO, arrayed |-> U32_ZERO, ms |-> U32_ZERO,
     sampled |-> U32_ZERO, image_format |-> <<>>]

\* ReflectBlockVariable::default()
DefaultBlockVariable ==
    [spirv_id |-> U32_ZERO, name |-> <<>>, offset |-> U32_ZERO,
     absolute_offset |-> U32_ZERO, size |-> U32_ZERO, padded_size |-> U32_ZERO,
     decoration_flags |-> {},
     numeric |-> DefaultTypeDescription.traits.numeric,
     array |-> DefaultTypeDescription.traits.array,
     members |-> <<>>, type_description |-> DefaultTypeDescription]

\* The product of the dims, multiplied as u32: [v |-> value, o |-> overflowed].
RECURSIVE dims_product(_, _)
dims_product(dims, acc) ==
    IF dims = <<>> THEN acc
    ELSE LET x == U32Mul(acc.v, dims[1])
         IN  dims_product(Tail(dims), [v |-> x.v, o |-> acc.o \/ x.o])

binding_nodes(nodes) ==
    SelectSeq([i \in 1..Len(nodes) |-> i - 1],
              LAMBDA node_index :
                  /\ nodes[node_index + 1].op = OpVariable
                  /\ nodes[node_index + 1].decorations.set.value # U32_MAX
                  /\ nodes[node_index + 1].decorations.binding.value # U32_MAX)

\* The comparator of the sort: binding, then spirv_id, each cast `as i32`.
binding_sort_key(b) == AsI32(b.binding) \o AsI32(b.spirv_id)

sort_bindings(bindings) ==
    SortByKey(bindings, [i \in 1..Len(bindings) |-> binding_sort_key(bindings[i])])

\* The tentative descriptor type a pointer's storage class gives; <<>> is todo!().
pointer_descriptor_type(storage_class) ==
    IF storage_class \in {<<StorageClassUniform>>, <<StorageClassUniformConstant>>}
    THEN <<"UniformBuffer">>
    ELSE IF storage_class = <<StorageClassStorageBuffer>> THEN <<"StorageBuffer">>
    ELSE <<>>

\* The index of the type a variable of type type_id has once a pointer is
\* looked through: -1 when an id on the way names nothing (the error of the
\* callers), the type's own index when it is no pointer.
resolve_pointer(nodes, tds, type_index) ==
    IF tds[type_index + 1].op # OpTypePointer THEN type_index
    ELSE LET type_node_index == find_node(nodes, tds[type_index + 1].id)
         IN  IF type_node_index = -1 THEN -1
             ELSE find_type(tds, nodes[type_node_index + 1].type_id)

\* The descriptor binding of a node whose type resolved to type_description;
\* descriptor_type is what the pointer gave, count the product of the dims.
new_binding(node, resolved_type_index, type_description, descriptor_type, count) ==
    [spirv_id |-> node.result_id,
     word_offset |-> <<node.decorations.binding.word_offset,
                       node.decorations.set.word_offset>>,
     name |-> node.name,
     descriptor_type |-> descriptor_type,
     binding |-> node.decorations.binding.value,
     input_attachment_index |-> node.decorations.input_attachment_index.value,
     set |-> node.decorations.set.value,
     count |-> count,
     accessed |-> FALSE,
     uav_counter_id |-> node.decorations.uav_counter_buffer.value,
     uav_counter_index |-> -1,
     type_index |-> <<resolved_type_index>>,
     resource_type |-> {},
     block |-> DefaultBlockVariable,
     image |-> IF \/ type_description.type_flags \cap EXTERNAL_MASK = {"EXTERNAL_IMAGE"}
                  \/ type_description.type_flags \cap SAMPLED_MASK = SAMPLED_MASK
               THEN type_description.traits.image
               ELSE DefaultImageTraits,
     array |-> [dims |-> type_description.traits.array.dims]]

counted_binding(checks, p, m, node, resolved_type_index, descriptor_type, count) ==
    IF count.o /\ checks THEN Stop("Panic", p, m)
    ELSE Ok(p, [m EXCEPT !.descriptor_bindings =
                   Append(@, new_binding(node, resolved_type_index,
                                         m.type_descriptions[resolved_type_index + 1],
                                         descriptor_type, count.v))])

resolved_binding(checks, p, m, node, resolved_type_index, descriptor_type) ==
    IF resolved_type_index = -1 THEN Err("Invalid SPIR-V ID reference", p, m)
    ELSE counted_binding(checks, p, m, node, resolved_type_index, descriptor_type,
             dims_product(m.type_descriptions[resolved_type_index + 1].traits.array.dims,
                          [v |-> U32(1), o |-> FALSE]))

\* One pass of the loop over binding_nodes.
push_binding(checks, p, m, node_index) ==
    LET node == p.nodes[node_index + 1]
        type_index == find_type(m.type_descriptions, node.type_id)
    IN  IF type_index = -1 THEN Err("Invalid SPIR-V ID reference", p, m)
        ELSE IF m.type_descriptions[type_index + 1].op # OpTypePointer
        THEN resolved_binding(checks, p, m, node, type_index, "Undefined")
        ELSE
        LET tentative ==
                pointer_descriptor_type(m.type_descriptions[type_index + 1].storage_class)
        IN  IF tentative = <<>> THEN Stop("Panic", p, m)
            ELSE resolved_binding(checks, p, m, node,
                     resolve_pointer(p.nodes, m.type_descriptions, type_index),
                     tentative[1])

RECURSIVE push_bindings(_, _, _, _)

bindings_then(checks, r, todo) ==
    IF r.res # "Ok" THEN r ELSE push_bindings(checks, r.self, r.module, todo)

push_bindings(checks, p, m, todo) ==
    IF todo = <<>> THEN Ok(p, m)
    ELSE bindings_then(checks, push_binding(checks, p, m, todo[1]), Tail(todo))

parse_descriptor_bindings(checks, p, m) ==
    LET r == push_bindings(checks, p, m, binding_nodes(p.nodes))
    IN  IF r.res # "Ok" THEN r
        ELSE Ok(p, [r.module EXCEPT !.descriptor_bindings = sort_bindings(@)])

(***************************************************************************)
(* Parser::parse_descriptor_type and Parser::parse_counter_bindings        *)
(***************************************************************************)
SAMPLED_IMAGE == 1
STORAGE_IMAGE == 2

\* The match on type_flags & EXTERNAL_MASK: [res, err, descriptor_type].
classify(descriptor_binding, type_description) ==
    LET kind == type_description.type_flags \cap EXTERNAL_MASK
        image == descriptor_binding.image
        is(t) == [res |-> "Ok", err |-> "", descriptor_type |-> t]
        bad(msg) == [res |-> "Err", err |-> msg,
                     descriptor_type |-> descriptor_binding.descriptor_type]
    IN  IF kind = {"EXTERNAL_BLOCK"} THEN
            IF descriptor_binding.descriptor_type # "Undefined"
            THEN is(descriptor_binding.descriptor_type)
            ELSE IF "BLOCK" \in type_description.decoration_flags THEN
                IF type_description.storage_class = <<StorageClassStorageBuffer>>
                THEN is("StorageBuffer")
                ELSE IF type_description.storage_class = <<StorageClassUniform>>
                THEN is("UniformBuffer")
                ELSE [res |-> "Panic", err |-> "", descriptor_type |-> "Undefined"]
            ELSE IF "BUFFER_BLOCK" \in type_description.decoration_flags
            THEN is("StorageBuffer")
            ELSE bad("Invalid SPIR-V struct type")
        ELSE IF kind = {"EXTERNAL_IMAGE"} THEN
            IF image.dim = <<DimBuffer>> THEN
                IF image.sampled = U32(SAMPLED_IMAGE) THEN is("UniformTexelBuffer")
                ELSE IF image.sampled = U32(STORAGE_IMAGE) THEN is("StorageTexelBuffer")
                ELSE bad("Invalid SPIR-V texel buffer sampling")
            ELSE IF image.dim = <<DimSubpassData>> THEN is("InputAttachment")
            ELSE IF image.sampled = U32(SAMPLED_IMAGE) THEN is("SampledImage")
            ELSE IF image.sampled = U32(STORAGE_IMAGE) THEN is("StorageImage")
            ELSE bad("Invalid SPIR-V image sampling")
        ELSE IF kind = {"EXTERNAL_SAMPLER"} THEN is("Sampler")
        ELSE IF kind = SAMPLED_MASK THEN
            IF image.dim = <<DimBuffer>> THEN
                IF image.sampled = U32(SAMPLED_IMAGE) THEN is("UniformBuffer")
                ELSE IF image.sampled = U32(STORAGE_IMAGE) THEN is("StorageBuffer")
                ELSE bad("Invalid SPIR-V texel buffer sampling")
            ELSE is("CombinedImageSampler")
        ELSE bad("Invalid SPIR-V type flag")

resource_type_of(descriptor_type) ==
    CASE descriptor_type = "Sampler" -> {"SAMPLER"}
      [] descriptor_type = "CombinedImageSampler" -> {"SAMPLER", "SHADER_RESOURCE_VIEW"}
      [] descriptor_type \in {"SampledImage", "UniformTexelBuffer"} ->
             {"SHADER_RESOURCE_VIEW"}
      [] descriptor_type \in {"StorageImage", "StorageTexelBuffer", "StorageBuffer",
                              "StorageBufferDynamic"} -> {"UNORDERED_ACCESS_VIEW"}
      [] descriptor_type \in {"UniformBuffer", "UniformBufferDynamic"} ->
             {"CONSTANT_BUFFER_VIEW"}
      [] OTHER -> {}

RECURSIVE parse_descriptor_type_from(_, _, _)
parse_descriptor_type_from(p, m, binding_index) ==
    IF binding_index >= Len(m.descriptor_bindings) THEN Ok(p, m)
    ELSE
    LET descriptor_binding == m.descriptor_bindings[binding_index + 1]
    IN  IF descriptor_binding.type_index = <<>>
        THEN Err("Invalid SPIR-V type description", p, m)
        ELSE
        LET c == classify(descriptor_binding,
                          m.type_descriptions[descriptor_binding.type_index[1] + 1])
        IN  IF c.res # "Ok"
            THEN [res |-> c.res, err |-> c.err, self |-> p, module |-> m]
            ELSE parse_descriptor_type_from(p,
                     [m EXCEPT !.descriptor_bindings[binding_index + 1] =
                         [@ EXCEPT !.descriptor_type = c.descriptor_type,
                                   !.resource_type = resource_type_of(c.descriptor_type)]],
                     binding_index + 1)

parse_descriptor_type(p, m) == parse_descriptor_type_from(p, m, 0)

AtCount == <<64, 99, 111, 117, 110, 116>>   \* "@count"

\* What the two searches compare: the counter's id with the candidate's
\* spirv_id, or "{name}@count" with the candidate's name.
counter_matches(descriptor_binding, candidate) ==
    IF descriptor_binding.uav_counter_id # U32_MAX
    THEN descriptor_binding.uav_counter_id = candidate.spirv_id
    ELSE candidate.name = descriptor_binding.name \o AtCount

\* The search without the comparison of ids or names: the first storage buffer.
RECURSIVE find_counter_unmatched(_, _, _)
find_counter_unmatched(bindings, descriptor_binding, index) ==
    IF index >= Len(bindings) THEN -1
    ELSE IF bindings[index + 1].descriptor_type = "StorageBuffer" THEN index
    ELSE find_counter_unmatched(bindings, descriptor_binding, index + 1)

\* The first storage buffer the search accepts, -1 (usize::MAX) for none.
RECURSIVE find_counter(_, _, _)
find_counter(bindings, descriptor_binding, index) ==
    IF index >= Len(bindings) THEN -1
    ELSE IF bindings[index + 1].descriptor_type = "StorageBuffer"
            /\ counter_matches(descriptor_binding, bindings[index + 1])
    THEN index
    ELSE find_counter(bindings, descriptor_binding, index + 1)

\* Each pass reads only descriptor_type, spirv_id, name and uav_counter_id,
\* none of which a pass writes.
parse_counter_bindings(p, m) ==
    LET bindings == m.descriptor_bindings
    IN  Ok(p, [m EXCEPT !.descriptor_bindings =
                  [i \in 1..Len(bindings) |->
                      IF bindings[i].descriptor_type # "StorageBuffer" THEN bindings[i]
                      ELSE [bindings[i] EXCEPT !.uav_counter_index =
                                find_counter(bindings, bindings[i], 0)]]])

(***************************************************************************)
(* Parser::parse_descriptor_block_variable                                 *)
(***************************************************************************)
BvOk(v) == [res |-> "Ok", err |-> "", variable |-> v]
BvErr(v) == [res |-> "Err", err |-> "Invalid SPIR-V ID reference", variable |-> v]
BvStop(kind, v) == [res |-> kind, err |-> "", variable |-> v]

\* The node whose member names and offsets the block takes, and the type
\* description it ends up with: [res, node_index, type].  For an OpTypeArray
\* node the while loop tests nodes[type_node_index], which its body never
\* changes: it leaves only through the unresolved element id.
resolve_block_type(nodes, tds, type_description, type_node_index) ==
    LET type_node == nodes[type_node_index + 1]
        found(i, t) == [res |-> "Ok", node_index |-> i, type |-> t]
        failed(kind) == [res |-> kind, node_index |-> type_node_index,
                         type |-> type_description]
    IN  IF type_node.op = OpTypeArray THEN
            IF find_node(nodes, type_node.array_traits.element_type_id) = -1
            THEN failed("Err") ELSE failed("Hang")
        ELSE IF type_node.op = OpTypeRuntimeArray THEN
            LET resolved_type_index ==
                    find_type(tds, type_node.array_traits.element_type_id)
            IN  IF resolved_type_index = -1 THEN failed("Err")
                ELSE
                LET resolved_type_description == tds[resolved_type_index + 1]
                    resolved_type_node_index ==
                        find_node(nodes, resolved_type_description.id)
                IN  IF resolved_type_node_index = -1 THEN failed("Err")
                    ELSE found(resolved_type_node_index, resolved_type_description)
        ELSE found(type_node_index, type_description)

RECURSIVE parse_descriptor_block_variable(_, _, _, _)
RECURSIVE block_members(_, _, _, _, _, _, _)

parse_descriptor_block_variable(nodes, tds, type_description, variable) ==
    LET finish(v, resolved, has_no_write) ==
            [v EXCEPT !.decoration_flags =
                          IF has_no_write THEN @ \cup {"NON_WRITABLE"} ELSE @,
                      !.name = resolved.type_name,
                      !.type_description = resolved]
    IN  IF Len(type_description.members) = 0
        THEN BvOk(finish(variable, type_description, FALSE))
        ELSE
        LET type_node_index == find_node(nodes, type_description.id)
        IN  IF type_node_index = -1 THEN BvErr(variable)
            ELSE
            LET rt == resolve_block_type(nodes, tds, type_description, type_node_index)
            IN  IF rt.res = "Err" THEN BvErr(variable)
                ELSE IF rt.res # "Ok" THEN BvStop(rt.res, variable)
                ELSE
                LET ms == block_members(nodes, tds, type_description, rt.node_index,
                                        0, variable, FALSE)
                IN  IF ms.res # "Ok" THEN [res |-> ms.res, err |-> ms.err,
                                           variable |-> ms.variable]
                    ELSE BvOk(finish(ms.variable, rt.type, ms.has_no_write))

\* The loop over the members of type_description, from member_index on.
block_members(nodes, tds, type_description, resolved_node_index, member_index,
              variable, has_no_write) ==
    IF member_index >= Len(type_description.members)
    THEN [res |-> "Ok", err |-> "", variable |-> variable, has_no_write |-> has_no_write]
    ELSE
    LET member_type_description == type_description.members[member_index + 1]
        sub == IF "STRUCT" \in member_type_description.type_flags
               THEN parse_descriptor_block_variable(nodes, tds, member_type_description,
                                                    DefaultBlockVariable)
               ELSE BvOk(DefaultBlockVariable)
        type_node == nodes[resolved_node_index + 1]
        stop(r) == [res |-> r.res, err |-> r.err, variable |-> variable,
                    has_no_write |-> has_no_write]
    IN  IF sub.res # "Ok" THEN stop(sub)
        ELSE IF member_index >= Len(type_node.member_names)
                \/ member_index >= Len(type_node.member_decorations)
        THEN stop(BvStop("Panic", variable))
        ELSE
        LET flags == apply_decorations(type_node.member_decorations[member_index + 1])
            member_variable ==
                [sub.variable EXCEPT
                   !.name = type_node.member_names[member_index + 1],
                   !.offset = type_node.member_decorations[member_index + 1].offset.value,
                   !.decoration_flags = flags,
                   !.array = IF type_description.op = OpTypeArray
                             THEN member_type_description.traits.array ELSE @,
                   !.numeric = member_type_description.traits.numeric,
                   !.type_description = member_type_description]
        IN  block_members(nodes, tds, type_description, resolved_node_index,
                          member_index + 1,
                          [variable EXCEPT !.members = Append(@, member_variable)],
                          has_no_write \/ "NON_WRITABLE" \in flags)

(***************************************************************************)
(* Parser::parse_descriptor_block_variable_sizes                           *)
(*                                                                         *)
(* The function has no error return of its own; what can end it is an     *)
(* arithmetic overflow in a build that checks for it.  The operators here *)
(* compute the wrapped values and carry the flag o, "some operation        *)
(* overflowed", which the caller turns into the panic of such a build.     *)
(***************************************************************************)
\* x & !(SPIRV_DATA_ALIGN - 1)
AlignDown(x) == <<x[1], x[2] - (x[2] % SPIRV_DATA_ALIGN)>>

\* element_count * stride of an array member, 0 * stride without dims
array_size(array) ==
    LET element_count == IF Len(array.dims) > 0
                         THEN dims_product(array.dims, [v |-> U32(1), o |-> FALSE])
                         ELSE [v |-> U32_ZERO, o |-> FALSE]
        x == U32Mul(element_count.v, array.stride)
    IN  [v |-> x.v, o |-> element_count.o \/ x.o]

\* The padding loop without its `if is_parent_rta` statement.
pad_member_without_rta(ms, i, is_parent_rta) ==
    LET d == U32Sub(ms[i + 1].offset, ms[i].offset)
        size == IF U32Lt(d.v, ms[i].size) THEN d.v ELSE ms[i].size
    IN  [variable |-> [ms[i] EXCEPT !.size = size, !.padded_size = d.v],
         o |-> d.o]

\* The padding loop on member i of ms, a member that has a next one.
pad_member(ms, i, is_parent_rta) ==
    LET d == U32Sub(ms[i + 1].offset, ms[i].offset)
        size == IF U32Lt(d.v, ms[i].size) THEN d.v ELSE ms[i].size
    IN  [variable |-> [ms[i] EXCEPT !.size = size,
                                    !.padded_size = IF is_parent_rta THEN size ELSE d.v],
         o |-> d.o]

\* The rounding of the last member up to the data alignment.
pad_last(last, is_parent_rta) ==
    LET a == U32Add(last.offset, last.size)
        b == U32Add(a.v, U32(SPIRV_DATA_ALIGN))
        c == U32Sub(b.v, U32(1))
        d == U32Sub(AlignDown(c.v), last.offset)
        size == IF U32Lt(d.v, last.size) THEN d.v ELSE last.size
    IN  [variable |-> [last EXCEPT !.size = size,
                                   !.padded_size = IF is_parent_rta THEN size ELSE d.v],
         o |-> a.o \/ b.o \/ c.o \/ d.o]

\* The absolute offset without the array-of-structs case: below the root
\* every member is at its parent's absolute offset plus its own offset.
absolute_offset_without_aos(is_parent_root, is_parent_aos, variable, member) ==
    IF is_parent_root THEN [v |-> member.offset, o |-> FALSE]
    ELSE U32Add(member.offset, variable.absolute_offset)

\* A member's absolute offset: [v |-> value, o |-> overflowed]
absolute_offset_of(is_parent_root, is_parent_aos, variable, member) ==
    IF is_parent_root THEN [v |-> member.offset, o |-> FALSE]
    ELSE IF is_parent_aos THEN [v |-> U32_ZERO, o |-> FALSE]
    ELSE U32Add(member.offset, variable.absolute_offset)

\* The padding loop and the rounding of the last member, on the members ms
\* that the size loop left.
pad_members(ms, is_parent_rta) ==
    [i \in 1..Len(ms) |-> IF i < Len(ms) THEN pad_member(ms, i, is_parent_rta)
                          ELSE pad_last(ms[i], is_parent_rta)]

\* The variable with its members and the size their last one gives it.
sized_block(variable, members, last_size) ==
    [variable EXCEPT !.members = members,
                     !.size = last_size, !.padded_size = last_size]

with_offset(r, abs) ==
    [variable |-> r.variable, o |-> r.o \/ abs.o]

\* The end of the function, from the results of the size and padding loops.
finish_sizes(variable, sized, padded, last_size) ==
    [variable |-> sized_block(variable,
                              [i \in 1..Len(padded) |-> padded[i].variable],
                              last_size.v),
     o |-> \/ \E i \in 1..Len(padded) : sized[i].o \/ padded[i].o
           \/ last_size.o]

last_size_of(last) == U32Add(last.offset, last.padded_size)

pad_sized(variable, sized, padded) ==
    finish_sizes(variable, sized, padded, last_size_of(padded[Len(padded)].variable))

size_sized(variable, is_parent_rta, sized) ==
    pad_sized(variable, sized,
              pad_members([i \in 1..Len(sized) |-> sized[i].variable], is_parent_rta))

RECURSIVE parse_descriptor_block_variable_sizes(_, _, _, _)
RECURSIVE member_size(_, _, _)

parse_descriptor_block_variable_sizes(is_parent_root, is_parent_aos, is_parent_rta,
                                      variable) ==
    IF Len(variable.members) = 0 THEN [variable |-> variable, o |-> FALSE]
    ELSE size_sized(variable, is_parent_rta,
             [i \in 1..Len(variable.members) |->
                 LET abs == absolute_offset_of(is_parent_root, is_parent_aos, variable,
                                               variable.members[i])
                 IN  with_offset(member_size(is_parent_aos, is_parent_rta,
                                     [variable.members[i] EXCEPT
                                        !.absolute_offset = abs.v]),
                                 abs)])

\* The match on the member's type opcode.
member_size(is_parent_aos, is_parent_rta, variable_member) ==
    LET td == variable_member.type_description
        numeric == td.traits.numeric
        plain(x) == [variable |-> [variable_member EXCEPT !.size = x.v], o |-> x.o]
        exact(w) == [v |-> w, o |-> FALSE]
        is_struct == "STRUCT" \in td.type_flags
    IN  CASE td.op = OpTypeBool -> plain(exact(U32(SPIRV_WORD_SIZE)))
          [] td.op \in {OpTypeInt, OpTypeFloat} ->
                 plain(exact(U32Div8(numeric.scalar.width)))
          [] td.op = OpTypeVector ->
                 plain(U32Mul(numeric.vector.component_count,
                              U32Div8(numeric.scalar.width)))
          [] td.op = OpTypeMatrix ->
                 IF "COLUMN_MAJOR" \in variable_member.decoration_flags
                 THEN plain(U32Mul(numeric.matrix.column_count,
                                   variable_member.numeric.matrix.stride))
                 ELSE IF "ROW_MAJOR" \in variable_member.decoration_flags
                 THEN plain(U32Mul(numeric.matrix.row_count,
                                   variable_member.numeric.matrix.stride))
                 ELSE [variable |-> variable_member, o |-> FALSE]
          [] td.op = OpTypeArray ->
                 LET sub == IF is_struct
                            THEN parse_descriptor_block_variable_sizes(
                                     FALSE, TRUE, is_parent_rta, variable_member)
                            ELSE [variable |-> variable_member, o |-> FALSE]
                     x == array_size(sub.variable.array)
                 IN  [variable |-> [sub.variable EXCEPT !.size = x.v],
                      o |-> sub.o \/ x.o]
          [] td.op = OpTypeRuntimeArray ->
                 IF is_struct
                 THEN parse_descriptor_block_variable_sizes(FALSE, TRUE, TRUE,
                                                            variable_member)
                 ELSE [variable |-> variable_member, o |-> FALSE]
          [] td.op = OpTypeStruct ->
                 parse_descriptor_block_variable_sizes(FALSE, is_parent_aos,
                                                       is_parent_rta, variable_member)
          [] OTHER -> [variable |-> variable_member, o |-> FALSE]

(***************************************************************************)
(* Parser::parse_descriptor_blocks and Parser::parse_push_constant_blocks  *)
(***************************************************************************)
\* The flag parse_descriptor_blocks hands to the size calculation.
block_is_parent_rta(descriptor_type) == descriptor_type = "StorageBuffer"

\* The block sized as the top-level block of a descriptor: sizes that a
\* runtime-array parent makes indeterminate are zeroed.
size_block(is_parent_rta, block) ==
    LET sized == parse_descriptor_block_variable_sizes(TRUE, FALSE, is_parent_rta, block)
    IN  IF is_parent_rta
        THEN [sized EXCEPT !.variable.size = U32_ZERO, !.variable.padded_size = U32_ZERO]
        ELSE sized

\* The tail of one pass: the sized block is stored, unless an overflow stopped
\* the pass before.
store_block(checks, p, m, index, sized) ==
    IF sized.o /\ checks THEN Stop("Panic", p, m)
    ELSE Ok(p, [m EXCEPT !.descriptor_bindings[index + 1].block = sized.variable])

\* One pass of the loop on a uniform or storage buffer with a type index;
\* built is what parse_descriptor_block_variable returned.
descriptor_block(checks, p, m, index, built) ==
    IF built.res # "Ok"
    THEN [res |-> built.res, err |-> built.err, self |-> p, module |-> m]
    ELSE store_block(checks, p, m, index,
             size_block(block_is_parent_rta(m.descriptor_bindings[index + 1].descriptor_type),
                        \* Top level uses descriptor name
                        [built.variable EXCEPT
                           !.name = m.descriptor_bindings[index + 1].name]))

RECURSIVE parse_descriptor_blocks_from(_, _, _, _)

blocks_then(checks, r, index) ==
    IF r.res # "Ok" THEN r
    ELSE parse_descriptor_blocks_from(checks, r.self, r.module, index)

parse_descriptor_blocks_from(checks, p, m, index) ==
    IF index >= Len(m.descriptor_bindings) THEN Ok(p, m)
    ELSE
    LET descriptor_binding == m.descriptor_bindings[index + 1]
    IN  IF descriptor_binding.descriptor_type \notin {"UniformBuffer", "StorageBuffer"}
        THEN parse_descriptor_blocks_from(checks, p, m, index + 1)
        ELSE IF descriptor_binding.type_index = <<>>
        THEN Err("Invalid SPIR-V type description", p, m)
        ELSE blocks_then(checks,
                 descriptor_block(checks, p, m, index,
                     parse_descriptor_block_variable(p.nodes, m.type_descriptions,
                         m.type_descriptions[descriptor_binding.type_index[1] + 1],
                         descriptor_binding.block)),
                 index + 1)

parse_descriptor_blocks(checks, p, m) == parse_descriptor_blocks_from(checks, p, m, 0)

\* The push constant block of a variable whose type resolved; sized is the
\* built block after the size calculation.
store_push_constant(checks, p, m, sized) ==
    IF sized.o /\ checks THEN Stop("Panic", p, m)
    ELSE Ok(p, [m EXCEPT !.push_constant_blocks = Append(@, sized.variable)])

push_constant_block(checks, p, m, built) ==
    IF built.res # "Ok"
    THEN [res |-> built.res, err |-> built.err, self |-> p, module |-> m]
    ELSE store_push_constant(checks, p, m,
             parse_descriptor_block_variable_sizes(TRUE, FALSE, FALSE, built.variable))

push_constant_of(checks, p, m, resolved_type_index) ==
    IF resolved_type_index = -1 THEN Err("Invalid SPIR-V ID reference", p, m)
    ELSE IF find_node(p.nodes, m.type_descriptions[resolved_type_index + 1].id) = -1
    THEN Err("Invalid SPIR-V ID reference", p, m)
    ELSE push_constant_block(checks, p, m,
             parse_descriptor_block_variable(p.nodes, m.type_descriptions,
                 m.type_descriptions[resolved_type_index + 1], DefaultBlockVariable))

RECURSIVE parse_push_constant_blocks_from(_, _, _, _)

push_constants_then(checks, r, node_index) ==
    IF r.res # "Ok" THEN r
    ELSE parse_push_constant_blocks_from(checks, r.self, r.module, node_index)

parse_push_constant_blocks_from(checks, p, m, node_index) ==
    IF node_index >= Len(p.nodes) THEN Ok(p, m)
    ELSE
    LET node == p.nodes[node_index + 1]
        type_index == find_type(m.type_descriptions, node.type_id)
    IN  IF node.op # OpVariable \/ node.storage_class # StorageClassPushConstant
        THEN parse_push_constant_blocks_from(checks, p, m, node_index + 1)
        ELSE IF type_index = -1
        THEN parse_push_constant_blocks_from(checks, p, m, node_index + 1)
        ELSE push_constants_then(checks,
                 push_constant_of(checks, p, m,
                     resolve_pointer(p.nodes, m.type_descriptions, type_index)),
                 node_index + 1)

parse_push_constant_blocks(checks, p, m) ==
    parse_push_constant_blocks_from(checks, p, m, 0)

(***************************************************************************)
(* Parser::parse_interface_variable and Parser::parse_interface_variables  *)
(***************************************************************************)
\* ReflectInterfaceVariable::default()
DefaultInterfaceVariable ==
    [spirv_id |-> U32_ZERO, name |-> <<>>, location |-> U32_ZERO,
     storage_class |-> <<>>, semantic |-> <<>>, decoration_flags |-> {},
     built_in |-> <<>>, numeric |-> DefaultTypeDescription.traits.numeric,
     array |-> DefaultTypeDescription.traits.array, members |-> <<>>,
     type_description |-> DefaultTypeDescription, word_offset |-> 0]

RECURSIVE parse_interface_variable(_, _, _, _)
RECURSIVE interface_members(_, _, _, _, _)

parse_interface_variable(nodes, variable, type_decorations, type_description) ==
    LET type_node_index == find_node(nodes, type_description.id)
    IN  IF type_node_index = -1 THEN BvErr(variable)
        ELSE
        LET type_node == nodes[type_node_index + 1]
            ms == interface_members(nodes, type_node, type_description, 0, variable)
        IN  IF ms.res # "Ok" THEN ms
            ELSE BvOk([ms.variable EXCEPT
                         !.array = IF type_description.op = OpTypeArray
                                   THEN type_description.traits.array ELSE @,
                         !.built_in = IF type_decorations.built_in # <<>>
                                      THEN type_decorations.built_in ELSE @,
                         !.name = type_node.name,
                         !.decoration_flags = apply_decorations(type_decorations),
                         !.numeric = type_description.traits.numeric,
                         !.type_description = type_description])

interface_members(nodes, type_node, type_description, member_index, variable) ==
    IF member_index >= AsUsize(type_node.member_count) THEN BvOk(variable)
    ELSE IF member_index >= Len(type_node.member_decorations)
            \/ member_index >= Len(type_description.members)
    THEN BvStop("Panic", variable)
    ELSE
    LET sub == parse_interface_variable(nodes, DefaultInterfaceVariable,
                   type_node.member_decorations[member_index + 1],
                   type_description.members[member_index + 1])
    IN  IF sub.res # "Ok" THEN [sub EXCEPT !.variable = variable]
        ELSE interface_members(nodes, type_node, type_description, member_index + 1,
                               [variable EXCEPT !.members = Append(@, sub.variable)])

\* The storage classes an interface variable may have; any other is an error.
InterfaceStorageClasses ==
    {StorageClassInput, StorageClassOutput, StorageClassUniform,
     StorageClassUniformConstant, StorageClassStorageBuffer}

EpOk(e) == [res |-> "Ok", err |-> "", entry_point |-> e]
EpErr(msg, e) == [res |-> "Err", err |-> msg, entry_point |-> e]
EpStop(kind, e) == [res |-> kind, err |-> "", entry_point |-> e]

\* What parse_interface_variables writes into the variable after
\* parse_interface_variable filled it.
reflected_variable(node, variable) ==
    [variable EXCEPT
       !.spirv_id = node.result_id,
       !.name = node.name,
       !.semantic = node.decorations.semantic.value,
       !.decoration_flags = IF node.decorations.built_in # <<>>
                            THEN @ \cup {"BUILT_IN"} ELSE @,
       !.location = node.decorations.location.value,
       !.word_offset = node.decorations.location.word_offset,
       !.built_in = IF node.decorations.built_in # <<>>
                    THEN node.decorations.built_in ELSE @]

\* The push onto the list the variable's storage class names; r is what
\* parse_interface_variable returned.
push_variable(node, entry_point, r) ==
    IF r.res = "Err" THEN EpErr(r.err, entry_point)
    ELSE IF r.res # "Ok" THEN EpStop(r.res, entry_point)
    ELSE IF node.storage_class = StorageClassInput
    THEN EpOk([entry_point EXCEPT
                 !.input_variables = Append(@, reflected_variable(node, r.variable))])
    ELSE IF node.storage_class = StorageClassOutput
    THEN EpOk([entry_point EXCEPT
                 !.output_variables = Append(@, reflected_variable(node, r.variable))])
    ELSE EpOk(entry_point)

typed_variable(nodes, node, type_description, entry_point) ==
    LET type_node_index == find_node(nodes, type_description.id)
    IN  IF type_node_index = -1 THEN EpErr("Invalid SPIR-V ID reference", entry_point)
        ELSE IF node.storage_class \notin InterfaceStorageClasses
        THEN EpErr("Invalid SPIR-V ID storage class", entry_point)
        ELSE push_variable(node, entry_point,
                 parse_interface_variable(nodes,
                     [DefaultInterfaceVariable EXCEPT
                        !.storage_class = <<node.storage_class>>],
                     nodes[type_node_index + 1].decorations,
                     type_description))

resolved_variable(nodes, tds, node, resolved_type_index, entry_point) ==
    IF resolved_type_index = -1 THEN EpErr("Invalid SPIR-V ID reference", entry_point)
    ELSE typed_variable(nodes, node, tds[resolved_type_index + 1], entry_point)

\* One pass of the second loop of parse_interface_variables.
interface_variable(nodes, tds, var_id, entry_point) ==
    LET node_index == find_node(nodes, var_id)
    IN  IF node_index = -1 THEN EpErr("Invalid SPIR-V ID reference", entry_point)
        ELSE
        LET type_index == find_type(tds, nodes[node_index + 1].type_id)
        IN  IF type_index = -1 THEN EpErr("Invalid SPIR-V ID reference", entry_point)
            ELSE resolved_variable(nodes, tds, nodes[node_index + 1],
                                   resolve_pointer(nodes, tds, type_index), entry_point)

RECURSIVE interface_variables_from(_, _, _, _)

interface_then(nodes, tds, r, interface_vars) ==
    IF r.res # "Ok" THEN r
    ELSE interface_variables_from(nodes, tds, interface_vars, r.entry_point)

interface_variables_from(nodes, tds, interface_vars, entry_point) ==
    IF interface_vars = <<>> THEN EpOk(entry_point)
    ELSE interface_then(nodes, tds,
             interface_variable(nodes, tds, interface_vars[1], entry_point),
             Tail(interface_vars))

parse_interface_variables(nodes, tds, interface_vars, entry_point) ==
    \* the counting loop fails on the first id that names no node
    IF \E i \in 1..Len(interface_vars) : find_node(nodes, interface_vars[i]) = -1
    THEN EpErr("Invalid SPIR-V ID reference", entry_point)
    ELSE interface_variables_from(nodes, tds, interface_vars, entry_point)

(***************************************************************************)
(* IterOps::intersect, Parser::traverse_call_graph and                     *)
(* Parser::parse_static_resources                                          *)
(***************************************************************************)
\* Vec::remove of the first element equal to e
RECURSIVE RemoveFirst(_, _)
RemoveFirst(v, e) ==
    IF v = <<>> THEN <<>>
    ELSE IF v[1] = e THEN Tail(v)
    ELSE <<v[1]>> \o RemoveFirst(Tail(v), e)

Contains(v, e) == \E i \in 1..Len(v) : v[i] = e

RECURSIVE intersect(_, _)
intersect(these, other) ==
    IF these = <<>> THEN <<>>
    ELSE IF Contains(other, these[1])
    THEN <<these[1]>> \o intersect(Tail(these), RemoveFirst(other, these[1]))
    ELSE intersect(Tail(these), other)

\* slice::sort of u32 values
SortU32(v) == SortByKey(v, v)

RECURSIVE traverse_call_graph(_, _, _, _)
RECURSIVE traverse_callees(_, _, _, _)

\* [res, functions]: how the walk ended and the ids pushed so far
traverse_call_graph(functions, function_index, called, depth) ==
    IF depth > Len(functions) THEN [res |-> "Err", functions |-> called]
    ELSE IF function_index >= Len(functions) THEN [res |-> "Panic", functions |-> called]
    ELSE traverse_callees(functions, functions[function_index + 1].callees,
                          Append(called, functions[function_index + 1].id), depth)

traverse_callees(functions, callees, called, depth) ==
    IF callees = <<>> THEN [res |-> "Ok", functions |-> called]
    ELSE LET r == traverse_call_graph(functions, callees[1].function, called, depth + 1)
         IN  IF r.res # "Ok" THEN r
             ELSE traverse_callees(functions, Tail(callees), r.functions, depth)

\* The two loops over called_functions: check_index only advances, and runs
\* off the table when the next id lies behind it.  [res, usage]
RECURSIVE collect_usage(_, _, _, _)
collect_usage(functions, called_functions, check_index, usage) ==
    IF called_functions = <<>> THEN [res |-> "Ok", usage |-> usage]
    ELSE IF check_index >= Len(functions) THEN [res |-> "Panic", usage |-> usage]
    ELSE IF functions[check_index + 1].id # called_functions[1]
    THEN collect_usage(functions, called_functions, check_index + 1, usage)
    ELSE collect_usage(functions, Tail(called_functions), check_index,
                       usage \o functions[check_index + 1].accessed)

RECURSIVE find_function(_, _, _)
find_function(functions, id, function_index) ==
    IF function_index >= Len(functions) THEN -1
    ELSE IF functions[function_index + 1].id = id THEN function_index
    ELSE find_function(functions, id, function_index + 1)

StaticOut(res, err, e, m) == [res |-> res, err |-> err, entry_point |-> e, module |-> m]

\* The end of parse_static_resources, from the sorted and deduplicated usage.
mark_usage(m, uniforms, push_constants, entry_point, usage) ==
    StaticOut("Ok", "",
        [entry_point EXCEPT
           !.used_uniforms = intersect(uniforms, usage),
           !.used_push_constants = intersect(push_constants, usage)],
        [m EXCEPT !.descriptor_bindings =
            [i \in 1..Len(m.descriptor_bindings) |->
                IF Contains(usage, m.descriptor_bindings[i].spirv_id)
                THEN [m.descriptor_bindings[i] EXCEPT !.accessed = TRUE]
                ELSE m.descriptor_bindings[i]]])

used_by(m, uniforms, push_constants, entry_point, used) ==
    IF used.res # "Ok" THEN StaticOut(used.res, "", entry_point, m)
    ELSE mark_usage(m, uniforms, push_constants, entry_point,
                    Dedup(SortU32(used.usage)))

walked(p, m, uniforms, push_constants, entry_point, walk) ==
    IF walk.res = "Err"
    THEN StaticOut("Err", "Entry point call graph must not contain cycles",
                   entry_point, m)
    ELSE IF walk.res # "Ok" THEN StaticOut(walk.res, "", entry_point, m)
    ELSE used_by(m, uniforms, push_constants, entry_point,
                 collect_usage(p.functions, Dedup(SortU32(walk.functions)), 0, <<>>))

\* [res, err, entry_point, module]
parse_static_resources(p, m, uniforms, push_constants, entry_point) ==
    LET function_index == find_function(p.functions, entry_point.id, 0)
    IN  IF function_index = -1
        THEN StaticOut("Err", "Invalid SPIR-V ID reference", entry_point, m)
        ELSE walked(p, m, uniforms, push_constants, entry_point,
                    traverse_call_graph(p.functions, function_index, <<>>, 0))

(***************************************************************************)
(* Parser::parse_entry_points                                              *)
(***************************************************************************)
enumerate_all_uniforms(m) ==
    SortU32([i \in 1..Len(m.descriptor_bindings) |-> m.descriptor_bindings[i].spirv_id])

enumerate_all_push_constants(m) ==
    SortU32([i \in 1..Len(m.push_constant_blocks) |-> m.push_constant_blocks[i].spirv_id])

\* ExecutionModel::from_u32 on the execution models of the model's inputs:
\* 0 (Vertex) to 6 (Kernel) are models, 7 is unassigned.
ExecutionModelKernel == 6
ExecutionModelFromU32(w) ==
    IF w[1] = 0 /\ w[2] <= ExecutionModelKernel THEN <<w[2]>> ELSE <<>>

shader_stage_of(w) ==
    IF w[1] # 0 THEN "Undefined"
    ELSE CASE w[2] = 0 -> "Vertex"
           [] w[2] = 1 -> "TessellationControl"
           [] w[2] = 2 -> "TessellationEvaluation"
           [] w[2] = 3 -> "Geometry"
           [] w[2] = 4 -> "Fragment"
           [] w[2] = 5 -> "Compute"
           [] w[2] = 6 -> "Kernel"
           [] w[2] = 5267 -> "TaskNV"
           [] w[2] = 5268 -> "MeshNV"
           [] w[2] = 5313 -> "RayGenerationNV"
           [] w[2] = 5314 -> "IntersectionNV"
           [] w[2] = 5315 -> "AnyHitNV"
           [] w[2] = 5316 -> "ClosestHitNV"
           [] w[2] = 5317 -> "MissNV"
           [] w[2] = 5318 -> "CallableNV"
           [] OTHER -> "Undefined"

\* The bytes of the slice the name is looked for in: word_count words from
\* the word the name starts at.
name_slice(ws, name_offset, word_count) ==
    [k \in 1..(word_count * SPIRV_WORD_SIZE) |->
        ByteAt(ws, <<>>, name_offset * SPIRV_WORD_SIZE + k - 1)]

\* The bytes before the first NUL of the slice, <<-1>> when it holds no NUL.
RECURSIVE until_nul(_, _)
until_nul(bytes, acc) ==
    IF bytes = <<>> THEN <<-1>>
    ELSE IF bytes[1] = 0 THEN acc
    ELSE until_nul(Tail(bytes), Append(acc, bytes[1]))

name_start_offset == 3

\* (name_length_with_null + SPIRV_WORD_SIZE - 1) / SPIRV_WORD_SIZE
name_word_count(name) == (Len(name) + 1 + SPIRV_WORD_SIZE - 1) \div SPIRV_WORD_SIZE

new_entry_point(ws, word_offset, name) ==
    [name |-> name,
     spirv_execution_model |-> ExecutionModelFromU32(Word(ws, word_offset + 1)),
     id |-> Word(ws, word_offset + 2),
     shader_stage |-> shader_stage_of(Word(ws, word_offset + 1)),
     input_variables |-> <<>>, output_variables |-> <<>>,
     descriptor_sets |-> <<>>, used_uniforms |-> <<>>,
     used_push_constants |-> <<>>]

\* The operands after the name: word_count - (3 + name_word_count) ids.
interface_vars_of(ws, node, name) ==
    [i \in 1..(node.word_count - (name_start_offset + name_word_count(name))) |->
        Word(ws, node.word_offset + name_start_offset + name_word_count(name) + i - 1)]

pushed_entry_point(p, used) ==
    IF used.res # "Ok"
    THEN [res |-> used.res, err |-> used.err, self |-> p, module |-> used.module]
    ELSE Ok(p, [used.module EXCEPT !.entry_points = Append(@, used.entry_point)])

with_interface(p, m, uniforms, push_constants, ifaces) ==
    IF ifaces.res # "Ok"
    THEN [res |-> ifaces.res, err |-> ifaces.err, self |-> p, module |-> m]
    ELSE pushed_entry_point(p,
             parse_static_resources(p, m, uniforms, push_constants, ifaces.entry_point))

named_entry_point(ws, p, m, uniforms, push_constants, node, name) ==
    IF name = <<-1>> THEN Err("Entry point name is not a valid string.", p, m)
    ELSE IF ~IsUtf8(name) THEN Stop("Panic", p, m)
    \* a count below zero: the subtraction overflows, or wraps to a capacity
    \* no vector can have
    ELSE IF node.word_count - (name_start_offset + name_word_count(name)) < 0
    THEN Stop("Panic", p, m)
    ELSE with_interface(p, m, uniforms, push_constants,
             parse_interface_variables(p.nodes, m.type_descriptions,
                 interface_vars_of(ws, node, name),
                 new_entry_point(ws, node.word_offset, name)))

\* The body of the loop for one OpEntryPoint node: [res, err, self, module]
entry_point_of(ws, p, m, uniforms, push_constants, node) ==
    IF ~InBounds(ws, node.word_offset + 1) THEN Stop("Panic", p, m)
    ELSE IF node.word_offset + name_start_offset + node.word_count >= Len(ws)
    THEN Err("Count mismatch while parsing strings.", p, m)
    ELSE named_entry_point(ws, p, m, uniforms, push_constants, node,
             until_nul(name_slice(ws, node.word_offset + name_start_offset,
                                  node.word_count), <<>>))

RECURSIVE parse_entry_points_from(_, _, _, _, _, _)

entry_points_then(ws, r, uniforms, push_constants, node_index) ==
    IF r.res # "Ok" THEN r
    ELSE parse_entry_points_from(ws, r.self, r.module, uniforms, push_constants,
                                 node_index)

parse_entry_points_from(ws, p, m, uniforms, push_constants, node_index) ==
    IF node_index >= Len(p.nodes) THEN Ok(p, m)
    ELSE IF p.nodes[node_index + 1].op # OpEntryPoint
    THEN parse_entry_points_from(ws, p, m, uniforms, push_constants, node_index + 1)
    ELSE entry_points_then(ws,
             entry_point_of(ws, p, m, uniforms, push_constants, p.nodes[node_index + 1]),
             uniforms, push_constants, node_index + 1)

parse_entry_points(ws, p, m) ==
    parse_entry_points_from(ws, p, m, enumerate_all_uniforms(m),
                            enumerate_all_push_constants(m), 0)

(***************************************************************************)
(* The state machine: Parser::parse, one action per statement of its body  *)
(***************************************************************************)
\* The opening checks with the magic-number comparison left out.
parse_header_unchecked(ws) ==
    IF Len(ws) = 0 THEN [res |-> "Err", err |-> "No SPIR-V specified for shader module"]
    ELSE IF ~InBounds(ws, 2) THEN [res |-> "Panic", err |-> ""]
    ELSE [res |-> "Ok", err |-> ""]

\* The checks and the generator read that open Parser::parse.
parse_header(ws) ==
    IF Len(ws) = 0 THEN [res |-> "Err", err |-> "No SPIR-V specified for shader module"]
    ELSE IF Word(ws, 0) # MAGIC_NUMBER
    THEN [res |-> "Err", err |-> "Invalid SPIR-V - does not start with valid magic number."]
    ELSE IF ~InBounds(ws, 2) THEN [res |-> "Panic", err |-> ""]
    ELSE [res |-> "Ok", err |-> ""]

parse ==
    /\ pc = "parse"
    /\ LET r == parse_header(spv_words)
       IN  /\ result' = IF r.res = "Ok" THEN "Running" ELSE r.res
           /\ error' = r.err
           /\ pc' = IF r.res = "Ok" THEN "parse_nodes" ELSE "done"
    /\ stage' = "parse"
    /\ UNCHANGED <<spv_words, beyond, overflow_checks, self, module>>

\* `self.stage(...)` with the `?` left out: the next stage runs whatever this
\* one returned.
StepWithoutReturn(next, r) ==
    /\ self' = r.self
    /\ module' = r.module
    /\ result' = IF r.res = "Ok" THEN "Running" ELSE r.res
    /\ error' = r.err
    /\ pc' = next
    /\ stage' = pc
    /\ UNCHANGED <<spv_words, beyond, overflow_checks>>

\* `self.stage(...)?`: the stage's writes stay in self and module whatever it
\* returns; anything but Ok ends parse.
Step(next, r) ==
    /\ self' = r.self
    /\ module' = r.module
    /\ result' = IF r.res = "Ok" THEN "Running" ELSE r.res
    /\ error' = r.err
    /\ pc' = IF r.res = "Ok" THEN next ELSE "done"
    /\ stage' = pc
    /\ UNCHANGED <<spv_words, beyond, overflow_checks>>

ParseNodes ==
    /\ pc = "parse_nodes"
    /\ Step("parse_strings", parse_nodes(spv_words, beyond, overflow_checks, self, module))

ParseStrings ==
    /\ pc = "parse_strings"
    /\ Step("parse_functions", parse_strings(spv_words, beyond, self, module))

ParseFunctions ==
    /\ pc = "parse_functions"
    /\ Step("parse_member_counts", parse_functions(spv_words, self, module))

ParseMemberCounts ==
    /\ pc = "parse_member_counts"
    /\ Step("parse_names", parse_member_counts(spv_words, overflow_checks, self, module))

ParseNames ==
    /\ pc = "parse_names"
    /\ Step("parse_decorations", parse_names(spv_words, self, module))

ParseDecorations ==
    /\ pc = "parse_decorations"
    /\ Step("parse_types", parse_decorations(spv_words, beyond, self, module))

ParseTypes ==
    /\ pc = "parse_types"
    /\ Step("parse_descriptor_bindings", parse_types(spv_words, self, module))

ParseDescriptorBindings ==
    /\ pc = "parse_descriptor_bindings"
    /\ Step("parse_descriptor_type",
            parse_descriptor_bindings(overflow_checks, self, module))

ParseDescriptorType ==
    /\ pc = "parse_descriptor_type"
    /\ Step("parse_counter_bindings", parse_descriptor_type(self, module))

ParseCounterBindings ==
    /\ pc = "parse_counter_bindings"
    /\ Step("parse_descriptor_blocks", parse_counter_bindings(self, module))

ParseDescriptorBlocks ==
    /\ pc = "parse_descriptor_blocks"
    /\ Step("parse_push_constant_blocks",
            parse_descriptor_blocks(overflow_checks, self, module))

ParsePushConstantBlocks ==
    /\ pc = "parse_push_constant_blocks"
    /\ Step("parse_entry_points",
            parse_push_constant_blocks(overflow_checks, self, module))

ParseEntryPoints ==
    /\ pc = "parse_entry_points"
    /\ Step("finish", parse_entry_points(spv_words, self, module))

\* The copy of the first entry point's id made before build_descriptor_sets
\* has returned.
fix_up_published(m) ==
    IF Len(m.entry_points) = 0 THEN m
    ELSE [m EXCEPT !.entry_point_id = m.entry_points[1].id,
                   !.entry_point_name = m.entry_points[1].name]

\* The loop that follows the stages left out: a storage buffer stays the
\* unordered access view parse_descriptor_type made it.
fix_up_nothing(m) == m

\* The loop that follows the stages: a storage buffer whose block is
\* NON_WRITABLE becomes a shader resource view.
fix_up(m) ==
    [m EXCEPT !.descriptor_bindings =
        [i \in 1..Len(m.descriptor_bindings) |->
            IF /\ m.descriptor_bindings[i].descriptor_type = "StorageBuffer"
               /\ "NON_WRITABLE" \in m.descriptor_bindings[i].block.decoration_flags
            THEN [m.descriptor_bindings[i] EXCEPT
                    !.resource_type = {"SHADER_RESOURCE_VIEW"}]
            ELSE m.descriptor_bindings[i]]]

\* The copy of the first entry point into the module.
publish(m) ==
    IF Len(m.entry_points) = 0 THEN m
    ELSE LET entry_point == m.entry_points[1]
         IN  [m EXCEPT !.entry_point_name = entry_point.name,
                       !.entry_point_id = entry_point.id,
                       !.spirv_execution_model = entry_point.spirv_execution_model,
                       !.shader_stage = entry_point.shader_stage,
                       !.input_variables = entry_point.input_variables,
                       !.output_variables = entry_point.output_variables]

\* The end of Parser::parse.  build_descriptor_sets is a function of the
\* module, outside the parser: all that is known of it here is that it
\* returns Ok or an error, and the model takes either.
Finish ==
    /\ pc = "finish"
    /\ \E built \in BOOLEAN :
          /\ module' = IF built THEN publish(fix_up(module)) ELSE fix_up(module)
          /\ result' = IF built THEN "Ok" ELSE "Err"
          /\ error' = IF built THEN "" ELSE "build_descriptor_sets"
    /\ pc' = "done"
    /\ stage' = "finish"
    /\ UNCHANGED <<spv_words, beyond, overflow_checks, self>>

Next ==
    \/ parse
    \/ ParseNodes
    \/ ParseStrings
    \/ ParseFunctions
    \/ ParseMemberCounts
    \/ ParseNames
    \/ ParseDecorations
    \/ ParseTypes
    \/ ParseDescriptorBindings
    \/ ParseDescriptorType
    \/ ParseCounterBindings
    \/ ParseDescriptorBlocks
    \/ ParsePushConstantBlocks
    \/ ParseEntryPoints
    \/ Finish

Start(ws, mem, checks) ==
    /\ spv_words = ws
    /\ beyond = mem
    /\ overflow_checks = checks
    /\ pc = "parse"
    /\ result = "Running"
    /\ error = ""
    /\ stage = ""
    /\ self = DefaultParser
    /\ module = DefaultModule

(***************************************************************************)
(* Inputs: raw word streams                                                *)
(***************************************************************************)
MaxBody == 3

RECURSIVE SeqsUpTo(_, _)
SeqsUpTo(S, n) ==
    IF n = 0 THEN {<<>>}
    ELSE LET shorter == SeqsUpTo(S, n - 1)
         IN  shorter \cup {Append(q, x) : q \in {t \in shorter : Len(t) = n - 1}, x \in S}

BadMagic == <<1827, 516>>

\* wc 1, 2 and 3 of OpNop, a word count of 0, an unassigned opcode, OpTypeVoid
RawAlphabet ==
    {<<1, OpNop>>, <<2, OpNop>>, <<3, OpNop>>, <<0, OpNop>>, <<1, 9>>,
     <<2, OpTypeVoid>>}

HeaderTail == <<U32(Half), U32(0), U32(8), U32(0)>>

RawInputs ==
    {<<>>}
    \cup {<<w0>> \o SubSeq(HeaderTail, 1, k) : w0 \in {MAGIC_NUMBER, BadMagic}, k \in 0..3}
    \cup {<<w0>> \o HeaderTail \o body :
            w0 \in {MAGIC_NUMBER, BadMagic}, body \in SeqsUpTo(RawAlphabet, MaxBody)}

InitWords == \E ws \in RawInputs : Start(ws, <<0>>, TRUE)

SpecWords == InitWords /\ [][Next]_vars

(***************************************************************************)
(* Inputs: assembled modules                                               *)
(***************************************************************************)
\* One instruction: the first word holds the word count and the opcode.
Ins(op, operands) == <<<<Len(operands) + 1, op>>>> \o operands

\* A string literal: its bytes, a NUL, and NULs up to the end of the word.
StrWords(bytes) ==
    LET b(k) == IF k <= Len(bytes) THEN bytes[k] ELSE 0
    IN  [w \in 1..(Len(bytes) \div 4 + 1) |->
            <<b(4 * w - 1) + 256 * b(4 * w), b(4 * w - 3) + 256 * b(4 * w - 2)>>]

Assembled(body) == <<MAGIC_NUMBER>> \o HeaderTail \o body

Decorate(target, decoration, operands) ==
    Ins(OpDecorate, <<target, U32(decoration)>> \o operands)

MemberDecorate(target, member, decoration, operands) ==
    Ins(OpMemberDecorate, <<target, U32(member), U32(decoration)>> \o operands)

\* The ids the assembled modules give their types.
IdVoid == U32(1)
IdUint == U32(2)
IdStruct == U32(3)
IdPtrUniform == U32(4)
IdPtrStorage == U32(5)
IdPtrInput == U32(6)
IdFnType == U32(7)
IdPtrPush == U32(8)
IdRuntimeArray == U32(9)
IdInput == U32(20)
IdMain == U32(30)
IdHelper == U32(40)
IdAbsent == U32(99)

NameMain == <<109>>   \* "m"
NameA == <<97>>       \* "a"

\* OpEntryPoint Vertex %function "m" %20
EntryPointIns(function) ==
    Ins(OpEntryPoint, <<U32(0), function>> \o StrWords(NameMain) \o <<IdInput>>)

\* void, a 32-bit unsigned integer, the function type, and the input
\* variable %20 with its Location.
CommonTypes ==
    Ins(OpTypeVoid, <<IdVoid>>)
    \o Ins(OpTypeInt, <<IdUint, U32(32), U32(0)>>)
    \o Ins(OpTypeFunction, <<IdFnType, IdVoid>>)
    \o Ins(OpTypePointer, <<IdPtrInput, U32(StorageClassInput), IdUint>>)
    \o Ins(OpVariable, <<IdPtrInput, IdInput, U32(StorageClassInput)>>)

\* A function definition: OpFunction, OpLabel, the body, OpReturn, OpFunctionEnd
FunctionIns(id, body) ==
    Ins(OpFunction, <<IdVoid, id, U32(0), IdFnType>>)
    \o Ins(OpLabel, <<<<id[1], id[2] + 1>>>>)
    \o body
    \o Ins(OpReturn, <<>>)
    \o Ins(OpFunctionEnd, <<>>)

RECURSIVE Flat(_)
Flat(seqs) == IF seqs = <<>> THEN <<>> ELSE seqs[1] \o Flat(Tail(seqs))

(***************************************************************************)
(* Inputs: modules of descriptor bindings                                  *)
(***************************************************************************)
MaxBindings == 2

\* 0x80000000 is the least value whose cast to i32 is negative.
BindingValues == {U32(0), U32(1), <<32768, 0>>}

BindingClasses == {StorageClassUniform, StorageClassStorageBuffer}

BindingVariants ==
    {"plain", "high_id", "counter_id", "counter_name", "no_function", "no_target",
     "no_pointee"}

VarId(i, variant) ==
    IF variant = "high_id" /\ i = 1 THEN <<32768, 10 + i>> ELSE U32(10 + i)

NameACount == NameA \o <<64, 99, 111, 117, 110, 116>>

\* vs[i] = [class, binding] of variable i, a block `struct { uint }` in
\* descriptor set 0.
BindingModule(vs, variant) ==
    LET n == Len(vs)
        id(i) == VarId(i, variant)
    IN  Assembled(
            EntryPointIns(IF variant = "no_function" THEN IdAbsent ELSE IdMain)
            \o Ins(OpSource, <<U32(2), U32(450)>>)   \* GLSL 450
            \o (IF variant = "counter_name"
                THEN Ins(OpName, <<id(1)>> \o StrWords(NameA))
                     \o (IF n > 1 THEN Ins(OpName, <<id(n)>> \o StrWords(NameACount))
                         ELSE <<>>)
                ELSE <<>>)
            \o Decorate(IdInput, DecorationLocation, <<U32(3)>>)
            \o Decorate(IdStruct, DecorationBlock, <<>>)
            \o MemberDecorate(IdStruct, 0, DecorationOffset, <<U32(0)>>)
            \o (IF variant = "no_target"
                THEN Decorate(IdAbsent, DecorationBinding, <<U32(0)>>) ELSE <<>>)
            \o Flat([i \in 1..n |->
                        Decorate(id(i), DecorationDescriptorSet, <<U32(0)>>)
                        \o Decorate(id(i), DecorationBinding, <<vs[i].binding>>)])
            \o (IF variant = "counter_id"
                THEN Ins(OpDecorateId,
                         <<id(1), U32(DecorationHlslCounterBufferGOOGLE), id(n)>>)
                ELSE <<>>)
            \o CommonTypes
            \o Ins(OpTypeStruct, <<IdStruct, IdUint>>)
            \o Ins(OpTypePointer, <<IdPtrUniform, U32(StorageClassUniform), IdStruct>>)
            \o Ins(OpTypePointer,
                   <<IdPtrStorage, U32(StorageClassStorageBuffer), IdStruct>>)
            \o (IF variant = "no_pointee"
                THEN Ins(OpTypePointer, <<IdPtrPush, U32(StorageClassUniform), IdAbsent>>)
                ELSE <<>>)
            \o Flat([i \in 1..n |->
                        Ins(OpVariable,
                            <<IF vs[i].class = StorageClassUniform THEN IdPtrUniform
                              ELSE IdPtrStorage,
                              id(i), U32(vs[i].class)>>)])
            \o FunctionIns(IdMain, <<>>))

BindingInputs ==
    {BindingModule(vs, variant) :
        vs \in UNION {[1..n -> [class : BindingClasses, binding : BindingValues]] :
                        n \in 1..MaxBindings},
        variant \in BindingVariants}

InitBindings == \E ws \in BindingInputs : Start(ws, <<0>>, TRUE)

SpecBindings == InitBindings /\ [][Next]_vars

(***************************************************************************)
(* Inputs: modules of one block                                            *)
(***************************************************************************)
MaxMembers == 2

BlockOffsets == {U32(0), U32(4), U32(16)}

BlockClasses == {StorageClassUniform, StorageClassStorageBuffer, StorageClassPushConstant}

\* plain: `{ uint, ... }`; runtime_array: the last member is `uint[]`;
\* nested: the first member is `struct { uint; uint; }` with offsets 0 and 4;
\* no_offsets: no member has an Offset decoration.
BlockVariants == {"plain", "runtime_array", "nested", "no_offsets"}

IdBlockVar == U32(11)
IdInner == U32(13)

BlockPointer(class) ==
    IF class = StorageClassUniform THEN IdPtrUniform
    ELSE IF class = StorageClassStorageBuffer THEN IdPtrStorage
    ELSE IdPtrPush

MemberType(i, n, variant) ==
    IF variant = "runtime_array" /\ i = n THEN IdRuntimeArray
    ELSE IF variant = "nested" /\ i = 1 THEN IdInner
    ELSE IdUint

BlockModule(class, offsets, variant) ==
    LET n == Len(offsets)
    IN  Assembled(
            EntryPointIns(IdMain)
            \o Decorate(IdInput, DecorationLocation, <<U32(0)>>)
            \o Decorate(IdStruct, DecorationBlock, <<>>)
            \o (IF variant = "no_offsets" THEN <<>>
                ELSE Flat([i \in 1..n |->
                        MemberDecorate(IdStruct, i - 1, DecorationOffset, <<offsets[i]>>)]))
            \o (IF variant = "nested"
                THEN MemberDecorate(IdInner, 0, DecorationOffset, <<U32(0)>>)
                     \o MemberDecorate(IdInner, 1, DecorationOffset, <<U32(4)>>)
                ELSE <<>>)
            \o (IF variant = "runtime_array"
                THEN Decorate(IdRuntimeArray, DecorationArrayStride, <<U32(4)>>)
                ELSE <<>>)
            \o (IF class = StorageClassPushConstant THEN <<>>
                ELSE Decorate(IdBlockVar, DecorationDescriptorSet, <<U32(0)>>)
                     \o Decorate(IdBlockVar, DecorationBinding, <<U32(0)>>))
            \o CommonTypes
            \o Ins(OpTypeRuntimeArray, <<IdRuntimeArray, IdUint>>)
            \o Ins(OpTypeStruct, <<IdInner, IdUint, IdUint>>)
            \o Ins(OpTypeStruct,
                   <<IdStruct>> \o [i \in 1..n |-> MemberType(i, n, variant)])
            \o Ins(OpTypePointer, <<BlockPointer(class), U32(class), IdStruct>>)
            \o Ins(OpVariable, <<BlockPointer(class), IdBlockVar, U32(class)>>)
            \o FunctionIns(IdMain, <<>>))

BlockInputs ==
    {BlockModule(class, offsets, variant) :
        class \in BlockClasses,
        offsets \in UNION {[1..n -> BlockOffsets] : n \in 1..MaxMembers},
        variant \in BlockVariants}

InitBlocks == \E ws \in BlockInputs, checks \in BOOLEAN : Start(ws, <<0>>, checks)

SpecBlocks == InitBlocks /\ [][Next]_vars

(***************************************************************************)
(* Inputs: modules of functions that call and load                         *)
(***************************************************************************)
MaxFunctions == 2

\* Function 1 is the entry point's: %30, then %40, ...
FnId(i) == U32(20 + 10 * i)

IdUniformA == U32(11)
IdUniformB == U32(12)

\* What a function body may call (<<>>: nothing; %99 is the id of no
\* function) and load from.
CallChoices(n) == {<<>>, <<IdAbsent>>} \cup {<<FnId(i)>> : i \in 1..n}
LoadChoices == {<<>>, <<IdUniformA>>, <<IdUniformB>>}

FunctionBody(i, f) ==
    (IF f.call = <<>> THEN <<>>
     ELSE Ins(OpFunctionCall, <<IdVoid, U32(60 + i), f.call[1]>>))
    \o (IF f.load = <<>> THEN <<>>
        ELSE Ins(OpLoad, <<IdStruct, U32(70 + i), f.load[1]>>))

\* Two uniform blocks `struct { uint }`, %11 at binding 0 and %12 at binding
\* 1, and the functions fs.
CallModule(fs) ==
    Assembled(
        EntryPointIns(FnId(1))
        \o Decorate(IdInput, DecorationLocation, <<U32(0)>>)
        \o Decorate(IdStruct, DecorationBlock, <<>>)
        \o MemberDecorate(IdStruct, 0, DecorationOffset, <<U32(0)>>)
        \o Decorate(IdUniformA, DecorationDescriptorSet, <<U32(0)>>)
        \o Decorate(IdUniformA, DecorationBinding, <<U32(0)>>)
        \o Decorate(IdUniformB, DecorationDescriptorSet, <<U32(0)>>)
        \o Decorate(IdUniformB, DecorationBinding, <<U32(1)>>)
        \o CommonTypes
        \o Ins(OpTypeStruct, <<IdStruct, IdUint>>)
        \o Ins(OpTypePointer, <<IdPtrUniform, U32(StorageClassUniform), IdStruct>>)
        \o Ins(OpVariable, <<IdPtrUniform, IdUniformA, U32(StorageClassUniform)>>)
        \o Ins(OpVariable, <<IdPtrUniform, IdUniformB, U32(StorageClassUniform)>>)
        \o Flat([i \in 1..Len(fs) |-> FunctionIns(FnId(i), FunctionBody(i, fs[i]))]))

CallInputs ==
    {CallModule(fs) :
        fs \in UNION {[1..n -> [call : CallChoices(n), load : LoadChoices]] :
                        n \in 1..MaxFunctions}}

InitCalls == \E ws \in CallInputs : Start(ws, <<0>>, TRUE)

SpecCalls == InitCalls /\ [][Next]_vars

(***************************************************************************)
(* Claims on raw word streams (SpecWords)                                  *)
(***************************************************************************)
BadHeader == spv_words = <<>> \/ Word(spv_words, 0) # MAGIC_NUMBER

\* C1: when the input is empty or its word 0 is not the magic number, parse
\* returns an error from its opening checks: once parse has acted it has
\* ended with Err, no stage has run, and the parser and the module hold no
\* node, type description, descriptor binding or entry point.
C1_BadHeaderFailsBeforeAnyStage ==
    (BadHeader /\ pc # "parse") =>
        /\ pc = "done"
        /\ result = "Err"
        /\ stage = "parse"
        /\ self = DefaultParser
        /\ module = DefaultModule

\* A stream with a wrong magic number and a body of instructions, after parse
\* returned.
C1_Witness ==
    /\ pc = "done"
    /\ result = "Err"
    /\ Len(spv_words) > STARTING_WORD
    /\ Word(spv_words, 0) = BadMagic

RECURSIVE SumWordCount(_, _)
SumWordCount(nodes, i) ==
    IF i > Len(nodes) THEN 0 ELSE nodes[i].word_count + SumWordCount(nodes, i + 1)

Tiles(nodes, len) ==
    /\ nodes # <<>> => nodes[1].word_offset = STARTING_WORD
    /\ \A i \in 1..(Len(nodes) - 1) :
          nodes[i].word_offset + nodes[i].word_count = nodes[i + 1].word_offset
    /\ SumWordCount(nodes, 1) + STARTING_WORD = len

ParseNodesReturnedOk == stage = "parse_nodes" /\ result = "Running"

\* C2: whenever parse_nodes returns Ok the nodes tile the instruction stream:
\* the first node starts at word 5, each node's word_offset + word_count is
\* the next node's word_offset, and the word counts plus 5 add up to the
\* length of the input.
C2_NodesTileStream ==
    ParseNodesReturnedOk => Tiles(self.nodes, Len(spv_words))

\* parse_nodes returned Ok on a stream whose last instruction states more
\* words than the stream has left.
C2_Truncated ==
    /\ ParseNodesReturnedOk
    /\ SumWordCount(self.nodes, 1) + STARTING_WORD > Len(spv_words)

(***************************************************************************)
(* Claims on descriptor bindings (SpecBindings)                            *)
(***************************************************************************)
Success == pc = "done" /\ result = "Ok"

\* (binding, spirv_id) as unsigned 32-bit values, high half first
UnsignedKey(b) == b.binding \o b.spirv_id

SortedUnsigned(bindings) ==
    \A i \in 1..(Len(bindings) - 1) :
        ~KeyLt(UnsignedKey(bindings[i + 1]), UnsignedKey(bindings[i]))

\* C3: after a successful parse descriptor_bindings is sorted ascending by
\* (binding, spirv_id), both compared as unsigned 32-bit values, those of
\* 2^31 and above included.
C3_SortedByBindingThenId == Success => SortedUnsigned(module.descriptor_bindings)

\* A successful parse that left a binding of 2^31 or above before a smaller one.
C3_HighBindingFirst ==
    /\ Success
    /\ \E i \in 1..(Len(module.descriptor_bindings) - 1) :
          /\ module.descriptor_bindings[i].binding[1] >= 32768
          /\ module.descriptor_bindings[i + 1].binding[1] < 32768

RecordedAt(ws, bindings) ==
    \A i \in 1..Len(bindings) :
        /\ InBounds(ws, bindings[i].word_offset[1])
        /\ Word(ws, bindings[i].word_offset[1]) = bindings[i].binding
        /\ InBounds(ws, bindings[i].word_offset[2])
        /\ Word(ws, bindings[i].word_offset[2]) = bindings[i].set

\* A variable without a Location decoration keeps word_offset 0.
LocatedAt(ws, variables) ==
    \A i \in 1..Len(variables) :
        variables[i].word_offset # 0 =>
            /\ InBounds(ws, variables[i].word_offset)
            /\ Word(ws, variables[i].word_offset) = variables[i].location

CounterOk(bindings, b) ==
    (b.descriptor_type = "StorageBuffer" /\ b.uav_counter_id # U32_MAX
        /\ b.uav_counter_index # -1) =>
        /\ b.uav_counter_index >= 0
        /\ b.uav_counter_index < Len(bindings)
        /\ bindings[b.uav_counter_index + 1].descriptor_type = "StorageBuffer"
        /\ bindings[b.uav_counter_index + 1].spirv_id = b.uav_counter_id

\* C9: after a successful parse, a storage buffer with a counter id other
\* than 0xFFFFFFFF and a counter index that is set has, at that index of the
\* sorted descriptor_bindings, a storage buffer whose spirv_id is the counter id.
C9_CounterIndexNamesCounter ==
    Success =>
        \A i \in 1..Len(module.descriptor_bindings) :
            CounterOk(module.descriptor_bindings, module.descriptor_bindings[i])

\* A successful parse in which a storage buffer's counter is another storage
\* buffer, which the sort has placed before it.
C9_Witness ==
    /\ Success
    /\ \E i \in 2..Len(module.descriptor_bindings) :
          /\ module.descriptor_bindings[i].descriptor_type = "StorageBuffer"
          /\ module.descriptor_bindings[i].uav_counter_id # U32_MAX
          /\ module.descriptor_bindings[i].uav_counter_index = 0
          /\ module.descriptor_bindings[i].spirv_id[2] = 11

(***************************************************************************)
(* Claims on failed parses (SpecBindings)                                  *)
(***************************************************************************)
ReturnedErr == pc = "done" /\ result = "Err"

StageOrder ==
    <<"parse", "parse_nodes", "parse_strings", "parse_functions",
      "parse_member_counts", "parse_names", "parse_decorations", "parse_types",
      "parse_descriptor_bindings", "parse_descriptor_type",
      "parse_counter_bindings", "parse_descriptor_blocks",
      "parse_push_constant_blocks", "parse_entry_points", "finish">>

StageIndex(s) == CHOOSE i \in 1..Len(StageOrder) : StageOrder[i] = s

FailedBefore(s) == StageIndex(stage) < StageIndex(s)

SourceFieldsUntouched(m) ==
    /\ m.source_language = DefaultModule.source_language
    /\ m.source_language_version = DefaultModule.source_language_version
    /\ m.source_file_id = DefaultModule.source_file_id
    /\ m.source_file = DefaultModule.source_file

NothingPublished(m) ==
    /\ m.entry_point_name = DefaultModule.entry_point_name
    /\ m.entry_point_id = DefaultModule.entry_point_id
    /\ m.spirv_execution_model = DefaultModule.spirv_execution_model
    /\ m.shader_stage = DefaultModule.shader_stage
    /\ m.input_variables = DefaultModule.input_variables
    /\ m.output_variables = DefaultModule.output_variables

\* C10 as stated: when parse returns an error the module's
\* type_descriptions, descriptor_bindings, push_constant_blocks, entry_points
\* and source fields are what they were before the call.
C10_ModuleUntouchedOnError ==
    ReturnedErr =>
        /\ module.type_descriptions = DefaultModule.type_descriptions
        /\ module.descriptor_bindings = DefaultModule.descriptor_bindings
        /\ module.push_constant_blocks = DefaultModule.push_constant_blocks
        /\ module.entry_points = DefaultModule.entry_points
        /\ SourceFieldsUntouched(module)

\* C10 amended: when parse returns an error, the fields that only a stage
\* after the failing one writes are what they were before the call (the
\* failing stage and the stages before it keep what they wrote), and the copy
\* of the first entry point into the module is not made.
C10_LaterStagesFieldsUntouchedOnError ==
    ReturnedErr =>
        /\ NothingPublished(module)
        /\ FailedBefore("parse_nodes") => module = DefaultModule
        /\ FailedBefore("parse_types") =>
              module.type_descriptions = DefaultModule.type_descriptions
        /\ FailedBefore("parse_descriptor_bindings") =>
              module.descriptor_bindings = DefaultModule.descriptor_bindings
        /\ FailedBefore("parse_push_constant_blocks") =>
              module.push_constant_blocks = DefaultModule.push_constant_blocks
        /\ FailedBefore("parse_entry_points") =>
              module.entry_points = DefaultModule.entry_points

\* parse returned the error of parse_entry_points, with the type
\* descriptions, the descriptor bindings and the source language in the module.
C10_Witness ==
    /\ ReturnedErr
    /\ stage = "parse_entry_points"
    /\ module.type_descriptions # <<>>
    /\ module.descriptor_bindings # <<>>
    /\ module.source_language # <<>>
    /\ module.entry_points = <<>>

(***************************************************************************)
(* Claims on block layout (SpecBlocks)                                     *)
(***************************************************************************)
\* offset[i + 1] - offset[i] as the u32 subtraction leaves it
Gap(ms, i) == U32Sub(ms[i + 1].offset, ms[i].offset).v

RECURSIVE PaddedToNext(_)
PaddedToNext(v) ==
    /\ \A i \in 1..(Len(v.members) - 1) :
          /\ U32Lt(v.members[i].offset, v.members[i + 1].offset)
          /\ v.members[i].padded_size = Gap(v.members, i)
    /\ \A k \in 1..Len(v.members) : PaddedToNext(v.members[k])

RECURSIVE PaddedOrPacked(_, _)
PaddedOrPacked(v, rta) ==
    /\ \A i \in 1..(Len(v.members) - 1) :
          /\ U32Le(v.members[i].size, Gap(v.members, i))
          /\ v.members[i].padded_size =
                IF rta THEN v.members[i].size ELSE Gap(v.members, i)
    /\ \A k \in 1..Len(v.members) :
          PaddedOrPacked(v.members[k],
                         rta \/ v.members[k].type_description.op = OpTypeRuntimeArray)

RECURSIVE HasRuntimeArray(_)
HasRuntimeArray(v) ==
    \E k \in 1..Len(v.members) :
        \/ v.members[k].type_description.op = OpTypeRuntimeArray
        \/ HasRuntimeArray(v.members[k])

EndOfLast(v) ==
    U32Add(v.members[Len(v.members)].offset, v.members[Len(v.members)].padded_size).v

SizedToLast(v) ==
    (v.members # <<>> /\ ~HasRuntimeArray(v)) =>
        /\ v.size = EndOfLast(v)
        /\ Lo(EndOfLast(v)) % SPIRV_DATA_ALIGN = 0

\* C5: after a successful parse, every uniform-buffer, storage-buffer and
\* push-constant block that has a member and holds no runtime array has
\* size == last member's offset + padded_size, a multiple of 16.
C5_SizeIsEndOfLastMember ==
    Success =>
        /\ \A i \in 1..Len(module.descriptor_bindings) :
              SizedToLast(module.descriptor_bindings[i].block)
        /\ \A i \in 1..Len(module.push_constant_blocks) :
              SizedToLast(module.push_constant_blocks[i])

\* A successful parse of a storage buffer without a runtime array whose
\* block has size 0.
C5_StorageBufferOfSizeZero ==
    /\ Success
    /\ \E i \in 1..Len(module.descriptor_bindings) :
          /\ module.descriptor_bindings[i].descriptor_type = "StorageBuffer"
          /\ module.descriptor_bindings[i].block.members # <<>>
          /\ ~HasRuntimeArray(module.descriptor_bindings[i].block)
          /\ module.descriptor_bindings[i].block.size = U32_ZERO

(***************************************************************************)
(* Claims on the call graph and the used resources (SpecCalls)             *)
(***************************************************************************)
\* The nodes of the body of the function whose OpFunction is node f (an
\* index from 1): those after it and before the first OpFunctionEnd.
RECURSIVE BodyNodes(_, _)
BodyNodes(nodes, k) ==
    IF k > Len(nodes) \/ nodes[k].op = OpFunctionEnd THEN {}
    ELSE {k} \cup BodyNodes(nodes, k + 1)

Operand(ws, node, k) == Word(ws, node.word_offset + k)

\* The ids the body's OpFunctionCall instructions call.
BodyCallees(ws, nodes, f) ==
    {Operand(ws, nodes[k], 3) : k \in {j \in BodyNodes(nodes, f + 1) :
                                          nodes[j].op = OpFunctionCall}}

\* The ids the body's memory-access instructions name.
BodyAccessed(ws, nodes, f) ==
    {Operand(ws, nodes[k], 3) : k \in {j \in BodyNodes(nodes, f + 1) :
                                          nodes[j].op \in AccessOps}}
    \cup {Operand(ws, nodes[k], 2) : k \in {j \in BodyNodes(nodes, f + 1) :
                                               nodes[j].op = OpStore}}

FunctionNodes(nodes) == {k \in 1..Len(nodes) : nodes[k].op = OpFunction}

\* The ids called by the functions whose ids are in ids.
CalledBy(ws, nodes, ids) ==
    UNION {BodyCallees(ws, nodes, f) :
             f \in {k \in FunctionNodes(nodes) : nodes[k].result_id \in ids}}

\* ids and what is reached from them in at most k calls
RECURSIVE Reached(_, _, _, _)
Reached(ws, nodes, ids, k) ==
    IF k = 0 THEN ids
    ELSE Reached(ws, nodes, ids \cup CalledBy(ws, nodes, ids), k - 1)

ReachableFrom(ws, nodes, ids) == Reached(ws, nodes, ids, Len(nodes))

\* A function reachable from the entry point's reaches itself again.
HasCycle(ws, nodes, entry) ==
    \E g \in ReachableFrom(ws, nodes, {entry}) :
        g \in ReachableFrom(ws, nodes, CalledBy(ws, nodes, {g}))

EntryIds(ws, nodes) ==
    {Operand(ws, nodes[k], 2) : k \in {j \in 1..Len(nodes) : nodes[j].op = OpEntryPoint}}

CycleError == "Entry point call graph must not contain cycles"

\* C6: when the call graph reachable from an entry point's function has a
\* cycle, parse_entry_points returns the call-graph cycle error.
C6_CycleFailsEntryPoints ==
    (stage = "parse_entry_points"
        /\ \E entry \in EntryIds(spv_words, self.nodes) :
              HasCycle(spv_words, self.nodes, entry)) =>
        (result = "Err" /\ error = CycleError)

\* parse_entry_points returned Ok on a module whose entry point's function
\* calls a function that calls it back.
C6_CycleAccepted ==
    /\ stage = "parse_entry_points"
    /\ result = "Running"
    /\ \E entry \in EntryIds(spv_words, self.nodes) :
          HasCycle(spv_words, self.nodes, entry)

AsSet(v) == {v[i] : i \in 1..Len(v)}

NoDuplicates(v) == \A i, j \in 1..Len(v) : v[i] = v[j] => i = j

UsedByEntry(ws, nodes, entry) ==
    UNION {BodyAccessed(ws, nodes, f) :
             f \in {k \in FunctionNodes(nodes) :
                      nodes[k].result_id \in ReachableFrom(ws, nodes, {entry})}}

BindingIds(m) == {m.descriptor_bindings[i].spirv_id : i \in 1..Len(m.descriptor_bindings)}

\* C7: for every entry point of a successful parse, used_uniforms holds,
\* without duplicates, exactly the spirv_ids of the descriptor bindings that
\* the functions reachable from the entry point's function access.
C7_UsedUniformsAreAccessedBindings ==
    Success =>
        \A e \in 1..Len(module.entry_points) :
            /\ NoDuplicates(module.entry_points[e].used_uniforms)
            /\ AsSet(module.entry_points[e].used_uniforms) =
                  BindingIds(module)
                  \cap UsedByEntry(spv_words, self.nodes, module.entry_points[e].id)

\* A successful parse whose entry point's function loads from a descriptor
\* binding and whose used_uniforms is empty.
C7_AccessedBindingUnused ==
    /\ Success
    /\ \E e \in 1..Len(module.entry_points) :
          /\ module.entry_points[e].used_uniforms = <<>>
          /\ BindingIds(module)
             \cap UsedByEntry(spv_words, self.nodes, module.entry_points[e].id) # {}

(***************************************************************************)
(* Claims on the node scan's opcodes (SpecWords)                           *)
(***************************************************************************)
\* The words at which the instructions of the stream start, by word count.
RECURSIVE InstructionStarts(_, _)
InstructionStarts(ws, i) ==
    IF ~(i < Len(ws)) \/ Hi(Word(ws, i)) = 0 THEN {}
    ELSE {i} \cup InstructionStarts(ws, i + Hi(Word(ws, i)))

UnknownOpcodes(ws) ==
    {i \in InstructionStarts(ws, STARTING_WORD) : OpFromU32(Lo(Word(ws, i))) = <<>>}

\* A stream of one-word instructions behind a good header: nothing but an
\* opcode that is not in the table can be wrong with it.
OneWordInstructions(ws) ==
    /\ Len(ws) > STARTING_WORD
    /\ Word(ws, 0) = MAGIC_NUMBER
    /\ \A i \in STARTING_WORD..(Len(ws) - 1) : Hi(Word(ws, i)) = 1

NodeAt(nodes, i) == {n \in 1..Len(nodes) : nodes[n].word_offset = i}

\* C11: on a stream whose instructions are sound but for opcodes that are not
\* known, parse_nodes does not fail, and once it has run every instruction
\* with an unknown opcode has a node whose op is Undef.
C11_UnknownOpcodeRecorded ==
    (OneWordInstructions(spv_words) /\ UnknownOpcodes(spv_words) # {}
        /\ pc \notin {"parse", "parse_nodes"}) =>
        /\ ~(stage = "parse_nodes" /\ result # "Running")
        /\ \A i \in UnknownOpcodes(spv_words) :
              \E n \in NodeAt(self.nodes, i) : self.nodes[n].op = OpUndef

\* parse_nodes returned its error for the opcode on a stream of one-word
\* instructions, one of them with an opcode outside the table.
C11_UnknownOpcodeRejected ==
    /\ OneWordInstructions(spv_words)
    /\ UnknownOpcodes(spv_words) # {}
    /\ pc = "done"
    /\ stage = "parse_nodes"
    /\ result = "Err"
    /\ error = "Invalid SPIR-V op"

(***************************************************************************)
(* Claims on the function table (SpecCalls)                                *)
(***************************************************************************)
ParseFunctionsReturnedOk ==
    /\ stage # ""
    /\ \/ stage = "parse_functions" /\ result = "Running"
       \/ StageIndex(stage) > StageIndex("parse_functions")

\* The pointers the body's memory-access instructions name: operand 3 of the
\* loads, access chains and array lengths, operand 2 of the stores, operands
\* 2 and 3 of the memory copies.
BodyPointers(ws, nodes, f) ==
    BodyAccessed(ws, nodes, f)
    \cup UNION {{Operand(ws, nodes[k], 2), Operand(ws, nodes[k], 3)} :
                  k \in {j \in BodyNodes(nodes, f + 1) :
                           nodes[j].op \in {OpCopyMemory, OpCopyMemorySized}}}

FunctionNodeOf(nodes, id) == {k \in FunctionNodes(nodes) : nodes[k].result_id = id}

CalleeIds(function) == {function.callees[j].callee : j \in 1..Len(function.callees)}

StrictlyIncreasing(v) == \A j \in 1..(Len(v) - 1) : U32Lt(v[j], v[j + 1])

\* C12: once parse_functions has returned Ok, every function of the table
\* has as callees the ids its body's OpFunctionCall instructions call and as
\* accessed the pointers its body's memory-access instructions name, in
\* increasing order without duplicates; the body ends at the function's
\* OpFunctionEnd.
C12_FunctionsHoldBodyCallsAndAccesses ==
    ParseFunctionsReturnedOk =>
        \A i \in 1..Len(self.functions) :
            \A f \in FunctionNodeOf(self.nodes, self.functions[i].id) :
                /\ CalleeIds(self.functions[i]) = BodyCallees(spv_words, self.nodes, f)
                /\ AsSet(self.functions[i].accessed) = BodyPointers(spv_words, self.nodes, f)
                /\ StrictlyIncreasing(self.functions[i].accessed)

\* parse_functions returned Ok with a function whose body calls a function
\* and loads from a variable, and whose callees and accessed are empty.
C12_BodyIgnored ==
    /\ ParseFunctionsReturnedOk
    /\ \E i \in 1..Len(self.functions) :
          /\ self.functions[i].callees = <<>>
          /\ self.functions[i].accessed = <<>>
          /\ \E f \in FunctionNodeOf(self.nodes, self.functions[i].id) :
                /\ BodyCallees(spv_words, self.nodes, f) # {}
                /\ BodyPointers(spv_words, self.nodes, f) # {}

\* The ids of the functions the stream defines (every OpFunction of these
\* modules has a body).
DefinedIds(nodes) == {nodes[k].result_id : k \in FunctionNodes(nodes)}

\* The ids the bodies of the defined functions call.
AllCallees(ws, nodes) ==
    UNION {BodyCallees(ws, nodes, f) : f \in FunctionNodes(nodes)}

ParseFunctionsRan ==
    stage # "" /\ StageIndex(stage) >= StageIndex("parse_functions")

CalleesResolved(functions) ==
    \A i \in 1..Len(functions) :
        \A j \in 1..Len(functions[i].callees) :
            LET c == functions[i].callees[j]
            IN  /\ c.function \in 0..(Len(functions) - 1)
                /\ functions[c.function + 1].id = c.callee

\* C13: once parse_functions has returned Ok the function table is in
\* increasing order of id and every callee entry's function index is that of
\* the function whose id is the callee; and when a body calls an id that no
\* function defines, parse_functions returns an error.
C13_CalleesResolvedOrError ==
    ParseFunctionsRan =>
        /\ ParseFunctionsReturnedOk =>
              /\ \A i \in 1..(Len(self.functions) - 1) :
                    U32Lt(self.functions[i].id, self.functions[i + 1].id)
              /\ CalleesResolved(self.functions)
        /\ ~(AllCallees(spv_words, self.nodes) \subseteq DefinedIds(self.nodes)) =>
              (stage = "parse_functions" /\ result = "Err")

\* parse_functions returned Ok on a module in which a function's body calls
\* an id that no function defines.
C13_UndefinedCalleeAccepted ==
    /\ ParseFunctionsReturnedOk
    /\ ~(AllCallees(spv_words, self.nodes) \subseteq DefinedIds(self.nodes))

(***************************************************************************)
(* Inputs: modules of one struct-typed descriptor                          *)
(***************************************************************************)
MaxLayers == 1

StructClasses == {StorageClassUniform, StorageClassStorageBuffer}

\* The struct's own decoration: none, Block or BufferBlock.
StructDecorations == {<<>>, <<DecorationBlock>>, <<DecorationBufferBlock>>}

IdLength == U32(14)
IdArray(k) == U32(14 + k)

\* The type the variable's pointer points to: the struct behind `layers`
\* layers of OpTypeArray, the outermost declared last.
Pointee(layers) == IF layers = 0 THEN IdStruct ELSE IdArray(layers)

\* The type of the struct's last member: uint, `uint[]`, or `Inner[]` with
\* Inner = `struct { uint; uint; }` at offsets 0 and 4.
StructTails == {"uint", "runtime_array", "runtime_array_of_struct"}

IdInnerArray == U32(10)

TailType(tail) ==
    IF tail = "runtime_array" THEN IdRuntimeArray
    ELSE IF tail = "runtime_array_of_struct" THEN IdInnerArray
    ELSE IdUint

\* `buffer|uniform S { uint m0; ...; tail; } v[2]...[2]` in set 0 at binding
\* 0, with the members of nw decorated NonWritable.
StructModule(class, decoration, nw, layers, tail) ==
    Assembled(
        EntryPointIns(IdMain)
        \o Decorate(IdInput, DecorationLocation, <<U32(0)>>)
        \o (IF decoration = <<>> THEN <<>> ELSE Decorate(IdStruct, decoration[1], <<>>))
        \o Flat([i \in 1..MaxMembers |->
                   MemberDecorate(IdStruct, i - 1, DecorationOffset, <<U32(16 * (i - 1))>>)
                   \o (IF i \in nw
                       THEN MemberDecorate(IdStruct, i - 1, DecorationNonWritable, <<>>)
                       ELSE <<>>)])
        \o MemberDecorate(IdInner, 0, DecorationOffset, <<U32(0)>>)
        \o MemberDecorate(IdInner, 1, DecorationOffset, <<U32(4)>>)
        \o Decorate(IdRuntimeArray, DecorationArrayStride, <<U32(4)>>)
        \o Decorate(IdInnerArray, DecorationArrayStride, <<U32(8)>>)
        \o Decorate(IdBlockVar, DecorationDescriptorSet, <<U32(0)>>)
        \o Decorate(IdBlockVar, DecorationBinding, <<U32(0)>>)
        \o CommonTypes
        \o Ins(OpConstant, <<IdUint, IdLength, U32(2)>>)
        \o Ins(OpTypeStruct, <<IdInner, IdUint, IdUint>>)
        \o Ins(OpTypeRuntimeArray, <<IdRuntimeArray, IdUint>>)
        \o Ins(OpTypeRuntimeArray, <<IdInnerArray, IdInner>>)
        \o Ins(OpTypeStruct,
               <<IdStruct>> \o [i \in 1..MaxMembers |->
                                  IF i = MaxMembers THEN TailType(tail) ELSE IdUint])
        \o Flat([k \in 1..layers |->
                   Ins(OpTypeArray, <<IdArray(k), Pointee(k - 1), IdLength>>)])
        \o Ins(OpTypePointer, <<BlockPointer(class), U32(class), Pointee(layers)>>)
        \o Ins(OpVariable, <<BlockPointer(class), IdBlockVar, U32(class)>>)
        \o FunctionIns(IdMain, <<>>))

StructInputs ==
    {StructModule(class, decoration, nw, layers, tail) :
        class \in StructClasses, decoration \in StructDecorations,
        nw \in SUBSET (1..MaxMembers), layers \in 0..MaxLayers, tail \in StructTails}

InitStructs == \E ws \in StructInputs : Start(ws, <<0>>, TRUE)

SpecStructs == InitStructs /\ [][Next]_vars

(***************************************************************************)
(* Claims on struct-typed descriptors (SpecStructs)                        *)
(***************************************************************************)
DescriptorTypeRan ==
    stage # "" /\ StageIndex(stage) >= StageIndex("parse_descriptor_type")

DescriptorTypeReturnedOk ==
    /\ DescriptorTypeRan
    /\ stage = "parse_descriptor_type" => result = "Running"

\* The instruction stream decorates the id with the decoration.
DecoratedIn(ws, nodes, id, decoration) ==
    \E k \in 1..Len(nodes) :
        /\ nodes[k].op = OpDecorate
        /\ Operand(ws, nodes[k], 1) = id
        /\ Operand(ws, nodes[k], 2) = U32(decoration)

\* The storage class operand of the OpVariable that defines the id.
VariableClasses(ws, nodes, id) ==
    {Operand(ws, nodes[k], 3) :
        k \in {j \in 1..Len(nodes) :
                 nodes[j].op = OpVariable /\ Operand(ws, nodes[j], 2) = id}}

IsBlockBinding(m, b) ==
    /\ b.type_index # <<>>
    /\ "EXTERNAL_BLOCK" \in m.type_descriptions[b.type_index[1] + 1].type_flags

\* What the struct's decoration and the variable's storage class make of a
\* struct-typed descriptor.
ClassifiedAs(ws, nodes, b) ==
    IF DecoratedIn(ws, nodes, IdStruct, DecorationBlock)
    THEN IF VariableClasses(ws, nodes, b.spirv_id) = {U32(StorageClassStorageBuffer)}
         THEN "StorageBuffer" ELSE "UniformBuffer"
    ELSE "StorageBuffer"

Undecorated(ws, nodes) ==
    /\ ~DecoratedIn(ws, nodes, IdStruct, DecorationBlock)
    /\ ~DecoratedIn(ws, nodes, IdStruct, DecorationBufferBlock)

\* C14: once parse_descriptor_type has run, a module whose descriptor's
\* struct has neither Block nor BufferBlock has failed in it with an error;
\* otherwise, once it returned Ok, the descriptor of a Block struct is a
\* StorageBuffer in storage class StorageBuffer and a UniformBuffer in any
\* other, and the descriptor of a BufferBlock struct is a StorageBuffer.
C14_StructDescriptorClassified ==
    DescriptorTypeRan =>
        IF Undecorated(spv_words, self.nodes)
        THEN stage = "parse_descriptor_type" /\ result = "Err"
        ELSE DescriptorTypeReturnedOk =>
                \A i \in 1..Len(module.descriptor_bindings) :
                    IsBlockBinding(module, module.descriptor_bindings[i]) =>
                        module.descriptor_bindings[i].descriptor_type =
                            ClassifiedAs(spv_words, self.nodes, module.descriptor_bindings[i])

\* A successful parse whose descriptor is a BufferBlock struct behind a
\* Uniform pointer and has come out as a UniformBuffer.
C14_BufferBlockAsUniformBuffer ==
    /\ Success
    /\ DecoratedIn(spv_words, self.nodes, IdStruct, DecorationBufferBlock)
    /\ \E i \in 1..Len(module.descriptor_bindings) :
          /\ IsBlockBinding(module, module.descriptor_bindings[i])
          /\ module.descriptor_bindings[i].descriptor_type = "UniformBuffer"

\* The instruction stream decorates some member of the struct NonWritable.
MemberDecoratedIn(ws, nodes, id, decoration) ==
    \E k \in 1..Len(nodes) :
        /\ nodes[k].op = OpMemberDecorate
        /\ Operand(ws, nodes[k], 1) = id
        /\ Operand(ws, nodes[k], 3) = U32(decoration)

StorageBuffers(m) ==
    {i \in 1..Len(m.descriptor_bindings) :
        m.descriptor_bindings[i].descriptor_type = "StorageBuffer"}

\* C15: at the end of a successful parse the block of a StorageBuffer
\* descriptor carries NON_WRITABLE exactly when a member of its struct is
\* decorated NonWritable, and the descriptor's resource_type is
\* SHADER_RESOURCE_VIEW when the block carries the flag and
\* UNORDERED_ACCESS_VIEW when it does not.
C15_NonWritableStorageBufferIsSrv ==
    Success =>
        \A i \in StorageBuffers(module) :
            LET b == module.descriptor_bindings[i]
            IN  /\ "NON_WRITABLE" \in b.block.decoration_flags
                      <=> MemberDecoratedIn(spv_words, self.nodes, IdStruct,
                                            DecorationNonWritable)
                /\ b.resource_type =
                      IF "NON_WRITABLE" \in b.block.decoration_flags
                      THEN {"SHADER_RESOURCE_VIEW"} ELSE {"UNORDERED_ACCESS_VIEW"}

\* A successful parse of a storage buffer whose second member alone is
\* NonWritable, reflected as a shader resource view.
C15_Witness ==
    /\ Success
    /\ \E i \in StorageBuffers(module) :
          LET b == module.descriptor_bindings[i]
          IN  /\ b.resource_type = {"SHADER_RESOURCE_VIEW"}
              /\ Len(b.block.members) > 1
              /\ "NON_WRITABLE" \notin b.block.members[1].decoration_flags
              /\ "NON_WRITABLE" \in b.block.members[2].decoration_flags

\* The node that defines the type id, and the last member type of a struct.
TypeNodes(ws, nodes, id) ==
    {k \in 1..Len(nodes) : nodes[k].is_type /\ Operand(ws, nodes[k], 1) = id}

LastMemberIsRuntimeArray(ws, nodes, struct) ==
    \E s \in TypeNodes(ws, nodes, struct) :
        /\ nodes[s].op = OpTypeStruct
        /\ \E a \in TypeNodes(ws, nodes, Operand(ws, nodes[s], nodes[s].word_count - 1)) :
              nodes[a].op = OpTypeRuntimeArray

\* The declaration is that of a storage buffer: a Block struct in storage
\* class StorageBuffer, or a BufferBlock struct.
DeclaredStorageBuffer(ws, nodes, b) ==
    \/ DecoratedIn(ws, nodes, IdStruct, DecorationBufferBlock)
    \/ /\ DecoratedIn(ws, nodes, IdStruct, DecorationBlock)
       /\ VariableClasses(ws, nodes, b.spirv_id) = {U32(StorageClassStorageBuffer)}

RECURSIVE AllPackedBelow(_, _)
AllPackedBelow(v, depth) ==
    /\ v.padded_size = v.size
    /\ depth > 0 =>
          \A i \in 1..Len(v.members) : AllPackedBelow(v.members[i], depth - 1)

\* C16: after a successful parse, a storage buffer's block whose last member
\* is a runtime array has size 0 and padded_size 0, and the runtime-array
\* member and every member below it have padded_size equal to size.
C16_RuntimeArrayBlockHasNoSize ==
    Success =>
        \A i \in 1..Len(module.descriptor_bindings) :
            LET b == module.descriptor_bindings[i]
            IN  (/\ DeclaredStorageBuffer(spv_words, self.nodes, b)
                 /\ LastMemberIsRuntimeArray(spv_words, self.nodes, IdStruct)) =>
                    /\ b.block.size = U32_ZERO
                    /\ b.block.padded_size = U32_ZERO
                    /\ b.block.members # <<>>
                    /\ AllPackedBelow(b.block.members[Len(b.block.members)], 2)

\* A successful parse of a BufferBlock struct that ends in a runtime array,
\* whose block has a size.
C16_RuntimeArrayBlockSized ==
    /\ Success
    /\ LastMemberIsRuntimeArray(spv_words, self.nodes, IdStruct)
    /\ DecoratedIn(spv_words, self.nodes, IdStruct, DecorationBufferBlock)
    /\ \E i \in 1..Len(module.descriptor_bindings) :
          module.descriptor_bindings[i].block.size # U32_ZERO

\* The ids of the types the variable's pointer type points to.
PointeeIds(ws, nodes, var) ==
    UNION {{Operand(ws, nodes[p], 3) :
              p \in {q \in TypeNodes(ws, nodes, Operand(ws, nodes[k], 1)) :
                       nodes[q].op = OpTypePointer}} :
           k \in {j \in 1..Len(nodes) :
                    nodes[j].op = OpVariable /\ Operand(ws, nodes[j], 2) = var}}

\* The variable is an array of blocks: its pointee is an OpTypeArray.
ArrayOfBlocks(ws, nodes, var) ==
    \E id \in PointeeIds(ws, nodes, var) :
        \E a \in TypeNodes(ws, nodes, id) : nodes[a].op = OpTypeArray

DescriptorBlocksRan ==
    stage # "" /\ StageIndex(stage) >= StageIndex("parse_descriptor_blocks")

DescriptorBlocksReturnedOk ==
    /\ DescriptorBlocksRan
    /\ stage = "parse_descriptor_blocks" => result = "Running"

\* The offsets the stream gives the members of the struct, in member order.
StructOffsets(ws, nodes, struct, n) ==
    [i \in 1..n |->
        CHOOSE v \in {Operand(ws, nodes[k], 4) :
                        k \in {j \in 1..Len(nodes) :
                                 /\ nodes[j].op = OpMemberDecorate
                                 /\ Operand(ws, nodes[j], 1) = struct
                                 /\ Operand(ws, nodes[j], 2) = U32(i - 1)
                                 /\ Operand(ws, nodes[j], 3) = U32(DecorationOffset)}} :
            TRUE]

\* C17: on a descriptor whose block type is an OpTypeArray of a struct,
\* parse_descriptor_blocks comes to an end, and when it returns Ok the
\* block's members have the offsets of the struct's members.
C17_ArrayOfBlocksTerminates ==
    (DescriptorBlocksRan /\ ArrayOfBlocks(spv_words, self.nodes, IdBlockVar)) =>
        /\ result # "Hang"
        /\ DescriptorBlocksReturnedOk =>
              \A i \in 1..Len(module.descriptor_bindings) :
                  LET members == module.descriptor_bindings[i].block.members
                  IN  [j \in 1..Len(members) |-> members[j].offset] =
                          StructOffsets(spv_words, self.nodes, IdStruct, MaxMembers)

\* parse_descriptor_blocks never returned on a descriptor that is an array of
\* blocks.
C17_ArrayOfBlocksHangs ==
    /\ ArrayOfBlocks(spv_words, self.nodes, IdBlockVar)
    /\ stage = "parse_descriptor_blocks"
    /\ result = "Hang"

(***************************************************************************)
(* Inputs: modules of one entry point and its interface                    *)
(***************************************************************************)
MaxInterface == 2

InterfaceClasses ==
    {StorageClassInput, StorageClassOutput, StorageClassUniform,
     StorageClassPrivate, StorageClassPushConstant}

\* Variable i of the interface, and the pointer type of a storage class.
InterfaceId(i) == U32(20 + i)
PointerId(class) == U32(50 + class)

\* A push constant is the block `struct { uint }`; the others are uints.
InterfacePointee(class) == IF class = StorageClassPushConstant THEN IdStruct ELSE IdUint

\* OpEntryPoint Vertex %30 "m" %21 ... with variable i in storage class
\* classes[i]
InterfaceModule(classes) ==
    Assembled(
        Ins(OpEntryPoint,
            <<U32(0), IdMain>> \o StrWords(NameMain)
            \o [i \in 1..Len(classes) |-> InterfaceId(i)])
        \o Decorate(IdStruct, DecorationBlock, <<>>)
        \o MemberDecorate(IdStruct, 0, DecorationOffset, <<U32(0)>>)
        \o Flat([i \in 1..Len(classes) |->
                   IF classes[i] \in {StorageClassInput, StorageClassOutput}
                   THEN Decorate(InterfaceId(i), DecorationLocation, <<U32(i)>>)
                   ELSE <<>>])
        \o Ins(OpTypeVoid, <<IdVoid>>)
        \o Ins(OpTypeInt, <<IdUint, U32(32), U32(0)>>)
        \o Ins(OpTypeFunction, <<IdFnType, IdVoid>>)
        \o Ins(OpTypeStruct, <<IdStruct, IdUint>>)
        \o Flat([i \in 1..Len(classes) |->
                   Ins(OpTypePointer, <<PointerId(classes[i]), U32(classes[i]),
                                        InterfacePointee(classes[i])>>)
                   \o Ins(OpVariable, <<PointerId(classes[i]), InterfaceId(i),
                                        U32(classes[i])>>)])
        \o FunctionIns(IdMain, <<>>))

InterfaceInputs ==
    {InterfaceModule(classes) : classes \in SeqsUpTo(InterfaceClasses, MaxInterface)}

InitInterface == \E ws \in InterfaceInputs : Start(ws, <<0>>, TRUE)

SpecInterface == InitInterface /\ [][Next]_vars

(***************************************************************************)
(* Claims on the entry point's interface (SpecInterface)                   *)
(***************************************************************************)
EntryPointsRan == stage \in {"parse_entry_points", "finish"}

\* The interface ids of the OpEntryPoint node whose name takes one word.
InterfaceIds(ws, node) == [i \in 1..(node.word_count - 4) |-> Operand(ws, node, 3 + i)]

EntryPointNodes(nodes) == {k \in 1..Len(nodes) : nodes[k].op = OpEntryPoint}

\* The ids of the sequence whose OpVariable has the storage class.
OfClass(ws, nodes, ids, class) ==
    SelectSeq(ids, LAMBDA id : VariableClasses(ws, nodes, id) = {U32(class)})

SpirvIds(variables) == [i \in 1..Len(variables) |-> variables[i].spirv_id]

\* C18: an interface whose variables are in storage classes besides Input
\* and Output does not make parse_entry_points fail, and after a successful
\* parse the entry point's input_variables and output_variables are the
\* interface's Input and Output variables, in interface order.
C18_InterfaceSplitByStorageClass ==
    EntryPointsRan =>
        /\ ~(stage = "parse_entry_points" /\ result # "Running")
        /\ Success =>
              \A k \in EntryPointNodes(self.nodes) :
                  \E e \in 1..Len(module.entry_points) :
                      LET ids == InterfaceIds(spv_words, self.nodes[k])
                          entry_point == module.entry_points[e]
                      IN  /\ entry_point.id = Operand(spv_words, self.nodes[k], 2)
                          /\ SpirvIds(entry_point.input_variables) =
                                OfClass(spv_words, self.nodes, ids, StorageClassInput)
                          /\ SpirvIds(entry_point.output_variables) =
                                OfClass(spv_words, self.nodes, ids, StorageClassOutput)

\* parse_entry_points returned the storage-class error on an interface that
\* lists an Input variable and a Private or PushConstant one.
C18_OtherClassRejected ==
    /\ stage = "parse_entry_points"
    /\ result = "Err"
    /\ error = "Invalid SPIR-V ID storage class"
    /\ \E k \in EntryPointNodes(self.nodes) :
          LET ids == InterfaceIds(spv_words, self.nodes[k])
          IN  /\ OfClass(spv_words, self.nodes, ids, StorageClassInput) # <<>>
              /\ \/ OfClass(spv_words, self.nodes, ids, StorageClassPrivate) # <<>>
                 \/ OfClass(spv_words, self.nodes, ids, StorageClassPushConstant) # <<>>

(***************************************************************************)
(* Inputs: modules of one entry point and its name                         *)
(***************************************************************************)
MaxName == 5

\* len bytes "a": followed by a NUL and padding when terminated, otherwise
\* filled up with "a" to the end of the last word (one word at least).
NameBytes(len) == [k \in 1..len |-> 97]

NameWords(len, terminated) ==
    IF terminated THEN StrWords(NameBytes(len))
    ELSE [w \in 1..(IF len = 0 THEN 1 ELSE (len + 3) \div 4) |-> <<97 * 257, 97 * 257>>]

\* OpEntryPoint Vertex %30 <name> %21 ... %(20+n), with n Input variables.
NameModule(len, terminated, n) ==
    Assembled(
        Ins(OpEntryPoint,
            <<U32(0), IdMain>> \o NameWords(len, terminated)
            \o [i \in 1..n |-> InterfaceId(i)])
        \o Decorate(IdMain, DecorationRelaxedPrecision, <<>>)
        \o Flat([i \in 1..n |-> Decorate(InterfaceId(i), DecorationLocation, <<U32(i)>>)])
        \o Ins(OpTypeVoid, <<IdVoid>>)
        \o Ins(OpTypeInt, <<IdUint, U32(32), U32(0)>>)
        \o Ins(OpTypeFunction, <<IdFnType, IdVoid>>)
        \o Ins(OpTypePointer, <<IdPtrInput, U32(StorageClassInput), IdUint>>)
        \o Flat([i \in 1..n |->
                   Ins(OpVariable, <<IdPtrInput, InterfaceId(i), U32(StorageClassInput)>>)])
        \o FunctionIns(IdMain, <<>>))

NameInputs ==
    {NameModule(len, terminated, n) :
        len \in 0..MaxName, terminated \in BOOLEAN, n \in 0..MaxInterface}

InitNames == \E ws \in NameInputs : Start(ws, <<0>>, TRUE)

SpecNames == InitNames /\ [][Next]_vars

(***************************************************************************)
(* Claims on the entry point's name (SpecNames)                            *)
(***************************************************************************)
\* The bytes of the instruction from its word +3 to its last word.
OperandBytes(ws, node) ==
    [k \in 1..((node.word_count - 3) * SPIRV_WORD_SIZE) |->
        Bytes4(Word(ws, node.word_offset + 3 + (k - 1) \div SPIRV_WORD_SIZE))
            [((k - 1) % SPIRV_WORD_SIZE) + 1]]

\* ceil((len + 1) / 4)
WordsOfName(name) == (Len(name) + 1 + 3) \div 4

\* The operands of the instruction that follow a name of that many words.
IdsAfterName(ws, node, words) ==
    [i \in 1..(node.word_count - 3 - words) |-> Operand(ws, node, 3 + words + i - 1)]

\* C19: once parse_entry_points has run on an OpEntryPoint whose words from
\* +3 on hold no NUL, it has returned an error; and after a successful parse
\* the entry point's name is the bytes before the first NUL from word +3,
\* and its interface variables are the word_count - 3 - ceil((len+1)/4)
\* operands that follow the name's words.
C19_NameAndInterfaceFromInstruction ==
    EntryPointsRan =>
        \A k \in EntryPointNodes(self.nodes) :
            LET name == until_nul(OperandBytes(spv_words, self.nodes[k]), <<>>)
            IN  IF name = <<-1>>
                THEN stage = "parse_entry_points" /\ result = "Err"
                ELSE Success =>
                        \E e \in 1..Len(module.entry_points) :
                            /\ module.entry_points[e].name = name
                            /\ SpirvIds(module.entry_points[e].input_variables) =
                                  IdsAfterName(spv_words, self.nodes[k], WordsOfName(name))

\* parse_entry_points ended in a panic on an OpEntryPoint whose name has
\* no NUL inside the instruction.
C19_UnterminatedNamePanics ==
    /\ stage = "parse_entry_points"
    /\ result = "Panic"
    /\ \E k \in EntryPointNodes(self.nodes) :
          until_nul(OperandBytes(spv_words, self.nodes[k]), <<>>) = <<-1>>

(***************************************************************************)
(* Claims on the bindings' accessed flag (SpecCalls)                       *)
(***************************************************************************)
\* The binding is used by an entry point: a function reachable from the
\* entry point's function accesses it.
UsedBySomeEntry(ws, nodes, m, b) ==
    \E e \in 1..Len(m.entry_points) :
        b.spirv_id \in UsedByEntry(ws, nodes, m.entry_points[e].id)

\* C20: after a successful parse a descriptor binding's accessed flag is
\* true exactly when the binding is among the resources some entry point
\* uses.
C20_AccessedIffUsedByAnEntryPoint ==
    Success =>
        \A i \in 1..Len(module.descriptor_bindings) :
            module.descriptor_bindings[i].accessed
                <=> UsedBySomeEntry(spv_words, self.nodes, module,
                                    module.descriptor_bindings[i])

\* A successful parse with a binding that the entry point's function loads
\* from and whose accessed flag is false.
C20_UsedBindingNotAccessed ==
    /\ Success
    /\ \E i \in 1..Len(module.descriptor_bindings) :
          /\ ~module.descriptor_bindings[i].accessed
          /\ UsedBySomeEntry(spv_words, self.nodes, module, module.descriptor_bindings[i])

(***************************************************************************)
(* Inputs: modules of push constants and the loads from them               *)
(***************************************************************************)
MaxPush == 2

PushClasses == {StorageClassPushConstant, StorageClassPrivate}

\* Variable i of the module: %81, %82
PushId(i) == U32(80 + i)

\* Variable i is a `struct { uint }` in storage class classes[i]; the entry
\* point's function %30 loads from the variables of loads.
PushModule(classes, loads) ==
    Assembled(
        Ins(OpEntryPoint, <<U32(0), IdMain>> \o StrWords(NameMain))
        \o Decorate(IdStruct, DecorationBlock, <<>>)
        \o MemberDecorate(IdStruct, 0, DecorationOffset, <<U32(0)>>)
        \o Ins(OpTypeVoid, <<IdVoid>>)
        \o Ins(OpTypeInt, <<IdUint, U32(32), U32(0)>>)
        \o Ins(OpTypeFunction, <<IdFnType, IdVoid>>)
        \o Ins(OpTypeStruct, <<IdStruct, IdUint>>)
        \o Flat([i \in 1..Len(classes) |->
                   Ins(OpTypePointer, <<PointerId(classes[i]), U32(classes[i]), IdStruct>>)
                   \o Ins(OpVariable, <<PointerId(classes[i]), PushId(i),
                                        U32(classes[i])>>)])
        \o FunctionIns(IdMain,
             Flat([i \in 1..Len(classes) |->
                     IF i \in loads
                     THEN Ins(OpLoad, <<IdStruct, U32(70 + i), PushId(i)>>)
                     ELSE <<>>])))

PushInputs ==
    {PushModule(classes, loads) :
        classes \in UNION {[1..n -> PushClasses] : n \in 1..MaxPush},
        loads \in SUBSET (1..MaxPush)}

InitPush == \E ws \in PushInputs : Start(ws, <<0>>, TRUE)

SpecPush == InitPush /\ [][Next]_vars

(***************************************************************************)
(* Claims on the used push constants (SpecPush)                            *)
(***************************************************************************)
\* The result ids of the OpVariable instructions in storage class
\* PushConstant.
PushConstantIds(ws, nodes) ==
    {nodes[k].result_id :
        k \in {j \in 1..Len(nodes) :
                 /\ nodes[j].op = OpVariable
                 /\ Operand(ws, nodes[j], 3) = U32(StorageClassPushConstant)}}

\* C21: for every entry point of a successful parse, used_push_constants
\* holds exactly the result ids of the PushConstant variables that the
\* functions reachable from the entry point's function access.
C21_UsedPushConstantsAreAccessedVariables ==
    Success =>
        \A e \in 1..Len(module.entry_points) :
            AsSet(module.entry_points[e].used_push_constants) =
                PushConstantIds(spv_words, self.nodes)
                \cap UsedByEntry(spv_words, self.nodes, module.entry_points[e].id)

\* A successful parse whose entry point's function loads from a push
\* constant and whose used_push_constants is empty.
C21_LoadedPushConstantUnused ==
    /\ Success
    /\ \E e \in 1..Len(module.entry_points) :
          /\ module.entry_points[e].used_push_constants = <<>>
          /\ PushConstantIds(spv_words, self.nodes)
             \cap UsedByEntry(spv_words, self.nodes, module.entry_points[e].id) # {}

(***************************************************************************)
(* Inputs: modules of variables with and without set and binding           *)
(***************************************************************************)
MaxDecorated == 2

DecoratedClasses ==
    {StorageClassUniform, StorageClassStorageBuffer, StorageClassPrivate}

\* What a variable's DescriptorSet and Binding decorations may be: absent,
\* 0, or (for the set) 0xFFFFFFFF.
SetChoices == {<<>>, <<U32(0)>>, <<U32_MAX>>}
BindingChoices == {<<>>, <<U32(0)>>}

\* Variable i of the module: %91, %92
DecoratedId(i) == U32(90 + i)

\* Variable i is a `struct { uint }` in storage class vs[i].class, with the
\* decorations vs[i].set and vs[i].binding.
DecoratedModule(vs) ==
    Assembled(
        Ins(OpEntryPoint, <<U32(0), IdMain>> \o StrWords(NameMain))
        \o Decorate(IdStruct, DecorationBlock, <<>>)
        \o MemberDecorate(IdStruct, 0, DecorationOffset, <<U32(0)>>)
        \o Flat([i \in 1..Len(vs) |->
                   (IF vs[i].set = <<>> THEN <<>>
                    ELSE Decorate(DecoratedId(i), DecorationDescriptorSet, vs[i].set))
                   \o (IF vs[i].binding = <<>> THEN <<>>
                       ELSE Decorate(DecoratedId(i), DecorationBinding, vs[i].binding))])
        \o Ins(OpTypeVoid, <<IdVoid>>)
        \o Ins(OpTypeInt, <<IdUint, U32(32), U32(0)>>)
        \o Ins(OpTypeFunction, <<IdFnType, IdVoid>>)
        \o Ins(OpTypeStruct, <<IdStruct, IdUint>>)
        \o Flat([i \in 1..Len(vs) |->
                   Ins(OpTypePointer, <<PointerId(vs[i].class), U32(vs[i].class), IdStruct>>)
                   \o Ins(OpVariable, <<PointerId(vs[i].class), DecoratedId(i),
                                        U32(vs[i].class)>>)])
        \o FunctionIns(IdMain, <<>>))

DecoratedInputs ==
    {DecoratedModule(vs) :
        vs \in UNION {[1..n -> [class : DecoratedClasses, set : SetChoices,
                                binding : BindingChoices]] : n \in 1..MaxDecorated}}

InitDecorated == \E ws \in DecoratedInputs : Start(ws, <<0>>, TRUE)

SpecDecorated == InitDecorated /\ [][Next]_vars

(***************************************************************************)
(* Claims on which variables become descriptor bindings (SpecDecorated)    *)
(***************************************************************************)
\* The OpVariable nodes whose set and binding are both assigned.
BoundVariables(nodes) ==
    {k \in 1..Len(nodes) :
        /\ nodes[k].op = OpVariable
        /\ nodes[k].decorations.set.value # U32_MAX
        /\ nodes[k].decorations.binding.value # U32_MAX}

\* Each node of the set has a binding of its id, each binding such a node,
\* and there are as many of the one as of the other.
BindingPerNode(nodes, bound, bindings) ==
    /\ Len(bindings) = Cardinality(bound)
    /\ \A k \in bound : \E i \in 1..Len(bindings) : bindings[i].spirv_id = nodes[k].result_id
    /\ \A i \in 1..Len(bindings) : \E k \in bound : bindings[i].spirv_id = nodes[k].result_id

\* C22: whatever the storage classes of the variables whose set and binding
\* are both assigned, parse_descriptor_bindings gives each of them a
\* descriptor binding and no other node one; after a successful parse there
\* are as many descriptor bindings as such variables.
C22_BindingPerDecoratedVariable ==
    /\ stage = "parse_descriptor_bindings" =>
          /\ result = "Running"
          /\ BindingPerNode(self.nodes, BoundVariables(self.nodes),
                            module.descriptor_bindings)
    /\ Success => BindingPerNode(self.nodes, BoundVariables(self.nodes),
                                 module.descriptor_bindings)

\* parse_descriptor_bindings panicked on a Private variable whose set and
\* binding are both assigned.
C22_PrivateVariablePanics ==
    /\ stage = "parse_descriptor_bindings"
    /\ result = "Panic"
    /\ \E k \in BoundVariables(self.nodes) :
          Operand(spv_words, self.nodes[k], 3) = U32(StorageClassPrivate)

(***************************************************************************)
(* Inputs: modules of type declarations                                    *)
(***************************************************************************)
MaxTypes == 2

\* The ids a declaration may take and refer to; 0xFFFFFFFF is the value
\* that marks a type description's id as unset.
TypeIds == {U32(2), U32(3), U32_MAX}

TypeKinds == {"int", "vector", "pointer", "struct"}

\* A declaration of the type id: a 32-bit integer, a vector of four, a
\* Uniform pointer, or a struct of one member; `of` is the id it refers to.
TypeIns(t) ==
    CASE t.kind = "int" -> Ins(OpTypeInt, <<t.id, U32(32), U32(0)>>)
      [] t.kind = "vector" -> Ins(OpTypeVector, <<t.id, t.of, U32(4)>>)
      [] t.kind = "pointer" ->
           Ins(OpTypePointer, <<t.id, U32(StorageClassUniform), t.of>>)
      [] t.kind = "struct" -> Ins(OpTypeStruct, <<t.id, t.of>>)

TypeModule(ts) == Assembled(Flat([i \in 1..Len(ts) |-> TypeIns(ts[i])]))

TypeDeclarations ==
    {t \in [kind : TypeKinds, id : TypeIds, of : TypeIds] :
        t.kind = "int" => t.of = t.id}

TypeInputs ==
    {TypeModule(ts) : ts \in UNION {[1..n -> TypeDeclarations] : n \in 1..MaxTypes}}

InitTypes == \E ws \in TypeInputs : Start(ws, <<0>>, TRUE)

SpecTypes == InitTypes /\ [][Next]_vars

(***************************************************************************)
(* Claims on the table of type descriptions (SpecTypes)                    *)
(***************************************************************************)
ParseTypesReturnedOk ==
    /\ stage # ""
    /\ StageIndex(stage) >= StageIndex("parse_types")
    /\ stage = "parse_types" => result = "Running"

\* The indices of the nodes with is_type set, in node order.
TypeNodeIndices(nodes) ==
    SelectSeq([k \in 1..Len(nodes) |-> k], LAMBDA k : nodes[k].is_type)

\* C23: after parse_types succeeds, type_descriptions has one entry per
\* node with is_type set, in node order; an entry's id is the result id of
\* its node, is resolved by find_node, and is never 0xFFFFFFFF.
C23_OneTypeDescriptionPerTypeNode ==
    ParseTypesReturnedOk =>
        LET types == TypeNodeIndices(self.nodes)
        IN  /\ Len(module.type_descriptions) = Len(types)
            /\ \A i \in 1..Len(module.type_descriptions) :
                  /\ i <= Len(types) =>
                        module.type_descriptions[i].id = self.nodes[types[i]].result_id
                  /\ module.type_descriptions[i].id # U32_MAX
                  /\ find_node(self.nodes, module.type_descriptions[i].id) # -1

\* parse_types returned Ok and left a type description whose id is
\* 0xFFFFFFFF, or whose id and op are those of another node than its own.
C23_SentinelIdOrForeignId ==
    /\ ParseTypesReturnedOk
    /\ LET types == TypeNodeIndices(self.nodes)
       IN  /\ Len(module.type_descriptions) = Len(types)
           /\ \E i \in 1..Len(types) :
                 /\ self.nodes[types[i]].result_id = U32_MAX
                 /\ \/ module.type_descriptions[i].id = U32_MAX
                    \/ /\ module.type_descriptions[i].id # self.nodes[types[i]].result_id
                       /\ module.type_descriptions[i].op # self.nodes[types[i]].op

(***************************************************************************)
(* Inputs: modules that end in a name, and the memory after them           *)
(***************************************************************************)
\* What lies after the slice: a NUL, the byte "b" and a NUL, or nothing
\* that is mapped.
Memories == {<<0>>, <<98, 0>>, <<>>}

NameTargets == {IdStruct, IdUniformA}

\* The uniform block %11 of type `struct { uint }` at set 0, binding 0, and
\* as the last instruction the OpName of the target.
MemoryModule(len, terminated, target) ==
    Assembled(
        Decorate(IdStruct, DecorationBlock, <<>>)
        \o MemberDecorate(IdStruct, 0, DecorationOffset, <<U32(0)>>)
        \o Decorate(IdUniformA, DecorationDescriptorSet, <<U32(0)>>)
        \o Decorate(IdUniformA, DecorationBinding, <<U32(0)>>)
        \o Ins(OpTypeInt, <<IdUint, U32(32), U32(0)>>)
        \o Ins(OpTypeStruct, <<IdStruct, IdUint>>)
        \o Ins(OpTypePointer, <<IdPtrUniform, U32(StorageClassUniform), IdStruct>>)
        \o Ins(OpVariable, <<IdPtrUniform, IdUniformA, U32(StorageClassUniform)>>)
        \o Ins(OpName, <<target>> \o NameWords(len, terminated)))

MemoryInputs ==
    {MemoryModule(len, terminated, target) :
        len \in 0..MaxName, terminated \in BOOLEAN, target \in NameTargets}

InitMemory == \E ws \in MemoryInputs, mem \in Memories : Start(ws, mem, TRUE)

SpecMemory == InitMemory /\ [][Next]_vars

(***************************************************************************)
(* Claims on parsing the same input again (SpecMemory)                     *)
(***************************************************************************)
\* The stages of Parser::parse from the k-th on, r being what the one before
\* returned, and after the last the end of Parser::parse.
RECURSIVE stages_from(_, _, _, _, _, _)
stages_from(k, ws, mem, checks, built, r) ==
    IF r.res # "Ok" THEN r
    ELSE IF k > 13
    THEN IF built THEN Ok(r.self, publish(fix_up(r.module)))
         ELSE Err("build_descriptor_sets", r.self, fix_up(r.module))
    ELSE stages_from(k + 1, ws, mem, checks, built,
             CASE k = 1 -> parse_nodes(ws, mem, checks, r.self, r.module)
               [] k = 2 -> parse_strings(ws, mem, r.self, r.module)
               [] k = 3 -> parse_functions(ws, r.self, r.module)
               [] k = 4 -> parse_member_counts(ws, checks, r.self, r.module)
               [] k = 5 -> parse_names(ws, r.self, r.module)
               [] k = 6 -> parse_decorations(ws, mem, r.self, r.module)
               [] k = 7 -> parse_types(ws, r.self, r.module)
               [] k = 8 -> parse_descriptor_bindings(checks, r.self, r.module)
               [] k = 9 -> parse_descriptor_type(r.self, r.module)
               [] k = 10 -> parse_counter_bindings(r.self, r.module)
               [] k = 11 -> parse_descriptor_blocks(checks, r.self, r.module)
               [] k = 12 -> parse_push_constant_blocks(checks, r.self, r.module)
               [] k = 13 -> parse_entry_points(ws, r.self, r.module))

\* Parser::parse on a fresh Parser and a fresh module, as one function of
\* the slice, the memory after it, the build profile and the outcome of
\* build_descriptor_sets: the stages in their order, each on what the one
\* before it left, up to the first that does not return Ok.
parse_fresh(ws, mem, checks, built) ==
    LET header == parse_header(ws)
    IN  IF header.res # "Ok"
        THEN [res |-> header.res, err |-> header.err,
              self |-> DefaultParser, module |-> DefaultModule]
        ELSE stages_from(1, ws, mem, checks, built, Ok(DefaultParser, DefaultModule))

\* The string of the module's last instruction has no NUL inside the slice.
NameRunsOff(ws) == ByteAt(ws, <<>>, SPIRV_WORD_SIZE * Len(ws) - 1) # 0

\* What a second parse of the words returns, for each content of the memory
\* after the slice.
Reparses(ws, checks) == {parse_fresh(ws, mem, checks, TRUE) : mem \in Memories}

\* C24: when a parse has succeeded, a parse of the same words with a fresh
\* Parser into a fresh module that succeeds as well leaves equal
\* descriptor_bindings and equal type_descriptions, whatever the memory
\* after the slice holds by then.
C24_ReparseYieldsEqualVectors ==
    Success =>
        \A again \in Reparses(spv_words, overflow_checks) :
            again.res = "Ok" =>
                /\ again.module.descriptor_bindings = module.descriptor_bindings
                /\ again.module.type_descriptions = module.type_descriptions

\* A successful parse of a module whose last name has no NUL inside the
\* slice, and a second successful parse of the same words whose
\* type_descriptions or descriptor_bindings differ.
C24_ReparseDiffers ==
    /\ Success
    /\ NameRunsOff(spv_words)
    /\ \E again \in Reparses(spv_words, overflow_checks) :
          /\ again.res = "Ok"
          /\ \/ again.module.descriptor_bindings # module.descriptor_bindings
             \/ again.module.type_descriptions # module.type_descriptions

(***************************************************************************)
(* Inputs: modules of one block whose first member is of some type         *)
(***************************************************************************)
MaxColumns == 3

IdBool == U32(60)
IdFloat == U32(61)
IdDouble == U32(62)
IdVector == U32(63)
IdColumn == U32(64)
IdMatrix == U32(65)
IdMemberArray == U32(66)

\* bool, uint, a 64-bit float, `vecN`, `matNx4` declared column-major,
\* row-major or neither, `uint[N]` and `uint[]`.
MemberKinds ==
    {"bool", "uint", "double", "vector", "matrix_col", "matrix_row", "matrix",
     "array", "runtime_array"}

MemberKindType(kind) ==
    CASE kind = "bool" -> IdBool
      [] kind = "uint" -> IdUint
      [] kind = "double" -> IdDouble
      [] kind = "vector" -> IdVector
      [] kind \in {"matrix_col", "matrix_row", "matrix"} -> IdMatrix
      [] kind = "array" -> IdMemberArray
      [] kind = "runtime_array" -> IdRuntimeArray

\* Where a second member, a uint, may start: <<>> is no second member.
SecondOffsets == {<<>>, <<U32(4)>>, <<U32(64)>>}

\* `uniform|buffer U { <kind> m0; uint m1; }` in set 0 at binding 0, m0 at
\* offset 0; matrices have a MatrixStride of 16, the array an ArrayStride of
\* 16, the runtime array one of 4.
MemberModule(class, kind, n, second) ==
    Assembled(
        Decorate(IdStruct, DecorationBlock, <<>>)
        \o MemberDecorate(IdStruct, 0, DecorationOffset, <<U32(0)>>)
        \o (IF kind \in {"matrix_col", "matrix_row", "matrix"}
            THEN MemberDecorate(IdStruct, 0, DecorationMatrixStride, <<U32(16)>>)
            ELSE <<>>)
        \o (IF kind = "matrix_col"
            THEN MemberDecorate(IdStruct, 0, DecorationColMajor, <<>>)
            ELSE IF kind = "matrix_row"
            THEN MemberDecorate(IdStruct, 0, DecorationRowMajor, <<>>)
            ELSE <<>>)
        \o (IF second = <<>> THEN <<>>
            ELSE MemberDecorate(IdStruct, 1, DecorationOffset, second))
        \o Decorate(IdMemberArray, DecorationArrayStride, <<U32(16)>>)
        \o Decorate(IdRuntimeArray, DecorationArrayStride, <<U32(4)>>)
        \o Decorate(IdBlockVar, DecorationDescriptorSet, <<U32(0)>>)
        \o Decorate(IdBlockVar, DecorationBinding, <<U32(0)>>)
        \o Ins(OpTypeBool, <<IdBool>>)
        \o Ins(OpTypeInt, <<IdUint, U32(32), U32(0)>>)
        \o Ins(OpTypeFloat, <<IdFloat, U32(32)>>)
        \o Ins(OpTypeFloat, <<IdDouble, U32(64)>>)
        \o Ins(OpTypeVector, <<IdVector, IdFloat, U32(n)>>)
        \o Ins(OpTypeVector, <<IdColumn, IdFloat, U32(4)>>)
        \o Ins(OpTypeMatrix, <<IdMatrix, IdColumn, U32(n)>>)
        \o Ins(OpConstant, <<IdUint, IdLength, U32(n)>>)
        \o Ins(OpTypeArray, <<IdMemberArray, IdUint, IdLength>>)
        \o Ins(OpTypeRuntimeArray, <<IdRuntimeArray, IdUint>>)
        \o Ins(OpTypeStruct,
               <<IdStruct, MemberKindType(kind)>>
               \o (IF second = <<>> THEN <<>> ELSE <<IdUint>>))
        \o Ins(OpTypePointer, <<BlockPointer(class), U32(class), IdStruct>>)
        \o Ins(OpVariable, <<BlockPointer(class), IdBlockVar, U32(class)>>))

MemberInputs ==
    {MemberModule(class, kind, n, second) :
        class \in StructClasses, kind \in MemberKinds, n \in 2..MaxColumns,
        second \in SecondOffsets}

InitMembers == \E ws \in MemberInputs : Start(ws, <<0>>, TRUE)

SpecMembers == InitMembers /\ [][Next]_vars

(***************************************************************************)
(* Claims on the sizes of block members (SpecMembers)                      *)
(***************************************************************************)
\* The node that declares the type id.
TypeNode(ws, nodes, id) == CHOOSE k \in TypeNodes(ws, nodes, id) : TRUE

\* The operand of the OpMemberDecorate of the struct's member, and of the
\* OpDecorate of the id, with the decoration.
MemberDecorationValue(ws, nodes, id, member, decoration) ==
    LET k == CHOOSE j \in 1..Len(nodes) :
                 /\ nodes[j].op = OpMemberDecorate
                 /\ Operand(ws, nodes[j], 1) = id
                 /\ Operand(ws, nodes[j], 2) = U32(member)
                 /\ Operand(ws, nodes[j], 3) = U32(decoration)
    IN  AsUsize(Operand(ws, nodes[k], 4))

DecorationValue(ws, nodes, id, decoration) ==
    LET k == CHOOSE j \in 1..Len(nodes) :
                 /\ nodes[j].op = OpDecorate
                 /\ Operand(ws, nodes[j], 1) = id
                 /\ Operand(ws, nodes[j], 2) = U32(decoration)
    IN  AsUsize(Operand(ws, nodes[k], 3))

MemberHas(ws, nodes, id, member, decoration) ==
    \E j \in 1..Len(nodes) :
        /\ nodes[j].op = OpMemberDecorate
        /\ Operand(ws, nodes[j], 1) = id
        /\ Operand(ws, nodes[j], 2) = U32(member)
        /\ Operand(ws, nodes[j], 3) = U32(decoration)

\* The width in bits of the scalar a numeric type is made of.
RECURSIVE ScalarWidth(_, _, _)
ScalarWidth(ws, nodes, t) ==
    IF nodes[t].op \in {OpTypeInt, OpTypeFloat} THEN AsUsize(Operand(ws, nodes[t], 2))
    ELSE ScalarWidth(ws, nodes, TypeNode(ws, nodes, Operand(ws, nodes[t], 2)))

\* The literal of the OpConstant that defines the id.
ConstantValue(ws, nodes, id) ==
    LET k == CHOOSE j \in 1..Len(nodes) :
                 nodes[j].op = OpConstant /\ Operand(ws, nodes[j], 2) = id
    IN  AsUsize(Operand(ws, nodes[k], 3))

\* The size in bytes that the declaration of member `member` (from 0) of
\* the struct declared by node s gives it, by the opcode of its type.
DeclaredSize(ws, nodes, s, member) ==
    LET t == TypeNode(ws, nodes, Operand(ws, nodes[s], 2 + member))
        struct == Operand(ws, nodes[s], 1)
        op == nodes[t].op
    IN  CASE op = OpTypeBool -> 4
          [] op \in {OpTypeInt, OpTypeFloat} -> ScalarWidth(ws, nodes, t) \div 8
          [] op = OpTypeVector ->
               AsUsize(Operand(ws, nodes[t], 3)) * (ScalarWidth(ws, nodes, t) \div 8)
          [] op = OpTypeMatrix ->
               IF MemberHas(ws, nodes, struct, member, DecorationColMajor)
               THEN AsUsize(Operand(ws, nodes[t], 3))
                    * MemberDecorationValue(ws, nodes, struct, member,
                                            DecorationMatrixStride)
               ELSE IF MemberHas(ws, nodes, struct, member, DecorationRowMajor)
               THEN AsUsize(Operand(ws, nodes[TypeNode(ws, nodes,
                                                       Operand(ws, nodes[t], 2))], 3))
                    * MemberDecorationValue(ws, nodes, struct, member,
                                            DecorationMatrixStride)
               ELSE 0
          [] op = OpTypeArray ->
               ConstantValue(ws, nodes, Operand(ws, nodes[t], 3))
               * DecorationValue(ws, nodes, Operand(ws, nodes[t], 1),
                                 DecorationArrayStride)
          [] op = OpTypeRuntimeArray -> 0

\* The members of the block have the sizes their declarations give them; a
\* member that is not the last is looked at when the next one starts at or
\* after its end.
SizedByOpcode(ws, nodes, block) ==
    LET s == TypeNode(ws, nodes, block.type_description.id)
    IN  \A k \in 1..Len(block.members) :
            (k < Len(block.members) =>
                DeclaredSize(ws, nodes, s, k - 1)
                    <= AsUsize(block.members[k + 1].offset)
                       - AsUsize(block.members[k].offset))
            => block.members[k].size = U32(DeclaredSize(ws, nodes, s, k - 1))

\* C25: after a successful parse each member of a descriptor's block has
\* the size its type's opcode gives: bool 4, int and float width / 8,
\* vector component count * width / 8, matrix column count * stride when
\* column-major and row count * stride when row-major, array the product of
\* its dims times its stride, runtime array none (0).
C25_MemberSizeByTypeOpcode ==
    Success =>
        \A i \in 1..Len(module.descriptor_bindings) :
            SizedByOpcode(spv_words, self.nodes, module.descriptor_bindings[i].block)

\* A successful parse left a member of type `uint[N]` with ArrayStride 16,
\* the last of its block, with size 0.
C25_ArrayMemberOfSizeZero ==
    /\ Success
    /\ \E i \in 1..Len(module.descriptor_bindings) :
          LET block == module.descriptor_bindings[i].block
          IN  /\ Len(block.members) = 1
              /\ block.members[1].type_description.op = OpTypeArray
              /\ block.members[1].type_description.traits.array.dims # <<>>
              /\ block.members[1].type_description.traits.array.stride = U32(16)
              /\ block.members[1].size = U32_ZERO

(***************************************************************************)
(* Inputs: modules of one block of nested structs                          *)
(***************************************************************************)
MaxDepth == 2

NestedOffsets == {U32(4), U32(16)}

\* The struct at nesting level j below the block, and the runtime array of
\* such a struct.
IdLevel(j) == IF j = 0 THEN IdStruct ELSE U32(100 + j)
IdLevelArray(j) == U32(120 + j)

\* Level j < depth is `struct { uint; <level j + 1> }`, the last level
\* `struct { uint; uint; }`; every second member is at offset off.  With
\* array_at = j > 0 the second member of level j - 1 is a runtime array of
\* level j.
NestedModule(class, depth, array_at, off) ==
    Assembled(
        Decorate(IdStruct, DecorationBlock, <<>>)
        \o Flat([i \in 1..(depth + 1) |->
                   MemberDecorate(IdLevel(i - 1), 0, DecorationOffset, <<U32(0)>>)
                   \o MemberDecorate(IdLevel(i - 1), 1, DecorationOffset, <<off>>)])
        \o (IF array_at = 0 THEN <<>>
            ELSE Decorate(IdLevelArray(array_at), DecorationArrayStride, <<U32(32)>>))
        \o (IF class = StorageClassPushConstant THEN <<>>
            ELSE Decorate(IdBlockVar, DecorationDescriptorSet, <<U32(0)>>)
                 \o Decorate(IdBlockVar, DecorationBinding, <<U32(0)>>))
        \o Ins(OpTypeInt, <<IdUint, U32(32), U32(0)>>)
        \o Flat([i \in 1..(depth + 1) |->
                   LET j == depth + 1 - i
                   IN  Ins(OpTypeStruct,
                           <<IdLevel(j), IdUint,
                             IF j = depth THEN IdUint
                             ELSE IF array_at = j + 1 THEN IdLevelArray(j + 1)
                             ELSE IdLevel(j + 1)>>)
                       \o (IF array_at = j /\ j > 0
                           THEN Ins(OpTypeRuntimeArray, <<IdLevelArray(j), IdLevel(j)>>)
                           ELSE <<>>)])
        \o Ins(OpTypePointer, <<BlockPointer(class), U32(class), IdStruct>>)
        \o Ins(OpVariable, <<BlockPointer(class), IdBlockVar, U32(class)>>))

NestedInputs ==
    {NestedModule(class, depth, array_at, off) :
        class \in BlockClasses, depth \in 1..MaxDepth, array_at \in 0..MaxDepth,
        off \in NestedOffsets}

InitNested == \E ws \in NestedInputs, checks \in BOOLEAN : Start(ws, <<0>>, checks)

SpecNested == InitNested /\ [][Next]_vars

(***************************************************************************)
(* Claims on absolute offsets (SpecNested)                                 *)
(***************************************************************************)
\* The variable stands for the elements of an array of structs.
IsArrayOfStructs(v) ==
    /\ v.type_description.op \in {OpTypeArray, OpTypeRuntimeArray}
    /\ "STRUCT" \in v.type_description.type_flags

\* The members of v, a block variable that is the root when is_root, carry
\* the absolute offsets of the rule, and so do the members below them.
RECURSIVE OffsetsByParent(_, _)
OffsetsByParent(v, is_root) ==
    \A k \in 1..Len(v.members) :
        /\ v.members[k].absolute_offset =
              IF is_root THEN v.members[k].offset
              ELSE IF IsArrayOfStructs(v) THEN U32_ZERO
              ELSE U32Add(v.absolute_offset, v.members[k].offset).v
        /\ OffsetsByParent(v.members[k], FALSE)

\* C26 as stated: in every block tree of a successful parse a member's
\* absolute_offset is its offset under the root block, 0 under an
\* array-of-structs element, and the parent's absolute_offset plus its
\* offset otherwise.
C26_AbsoluteOffsetByParent ==
    Success =>
        /\ \A i \in 1..Len(module.descriptor_bindings) :
              OffsetsByParent(module.descriptor_bindings[i].block, TRUE)
        /\ \A i \in 1..Len(module.push_constant_blocks) :
              OffsetsByParent(module.push_constant_blocks[i], TRUE)

\* under: v or a variable above it stands for the elements of an array of
\* structs
RECURSIVE OffsetsByAncestors(_, _, _)
OffsetsByAncestors(v, is_root, under) ==
    \A k \in 1..Len(v.members) :
        /\ v.members[k].absolute_offset =
              IF is_root THEN v.members[k].offset
              ELSE IF under \/ IsArrayOfStructs(v) THEN U32_ZERO
              ELSE U32Add(v.absolute_offset, v.members[k].offset).v
        /\ OffsetsByAncestors(v.members[k], FALSE, under \/ IsArrayOfStructs(v))

\* C26 amended: a member's absolute_offset is its offset under the root
\* block, 0 when its parent or any variable above its parent is an
\* array-of-structs element, and the parent's absolute_offset plus its
\* offset (modulo 2^32) otherwise.
C26_AbsoluteOffsetByAncestors ==
    Success =>
        /\ \A i \in 1..Len(module.descriptor_bindings) :
              OffsetsByAncestors(module.descriptor_bindings[i].block, TRUE, FALSE)
        /\ \A i \in 1..Len(module.push_constant_blocks) :
              OffsetsByAncestors(module.push_constant_blocks[i], TRUE, FALSE)

\* A successful parse of a block whose second member, at a nonzero offset
\* that is its absolute offset too, is a runtime array of structs with a
\* struct nested in the element: the nested struct and its second member,
\* which has a nonzero offset, have absolute_offset 0.
C26_Witness ==
    /\ Success
    /\ \E i \in 1..Len(module.descriptor_bindings) :
          LET block == module.descriptor_bindings[i].block
          IN  /\ Len(block.members) = 2
              /\ Len(block.members[2].members) = 2
              /\ Len(block.members[2].members[2].members) = 2
              /\ IsArrayOfStructs(block.members[2])
              /\ block.members[2].offset # U32_ZERO
              /\ block.members[2].absolute_offset = block.members[2].offset
              /\ block.members[2].members[2].absolute_offset = U32_ZERO
              /\ block.members[2].members[2].members[2].offset # U32_ZERO
              /\ block.members[2].members[2].members[2].absolute_offset = U32_ZERO

(***************************************************************************)
(* The order of the stages                                                 *)
(***************************************************************************)
\* The stages in the order the specification lists them.
StagesAsStated ==
    <<"parse_nodes", "parse_strings", "parse_functions", "parse_member_counts",
      "parse_names", "parse_decorations", "parse_types",
      "parse_descriptor_bindings", "parse_descriptor_type",
      "parse_counter_bindings", "parse_descriptor_blocks",
      "parse_push_constant_blocks", "parse_entry_points">>

\* C27: parse runs its stages in the fixed order nodes, strings, functions,
\* member counts, names, decorations, types, descriptor bindings, descriptor
\* types, counter bindings, descriptor blocks, push-constant blocks, entry
\* points: every step runs the stage that follows the one run before it, a
\* stage that returns Ok hands over to the next one in the list, and a stage
\* that returns anything else ends the parse with that outcome, after which
\* no step is taken.
C27_StagesInOrderFirstErrorEnds ==
    [][/\ pc # "done"
       /\ result = "Running"
       /\ stage' = pc
       /\ \A i \in 1..Len(StagesAsStated) :
             pc = StagesAsStated[i] =>
                /\ stage = IF i = 1 THEN "parse" ELSE StagesAsStated[i - 1]
                /\ IF result' = "Running"
                   THEN /\ pc' = IF i = Len(StagesAsStated) THEN "finish"
                                 ELSE StagesAsStated[i + 1]
                        /\ error' = ""
                   ELSE /\ pc' = "done"
                        /\ result' # "Ok"]_vars

\* parse_types, the seventh stage, has returned an error after the six
\* stages before it returned Ok: the parse has ended with that error.
C27_Witness ==
    /\ pc = "done"
    /\ result = "Err"
    /\ error # ""
    /\ stage = StagesAsStated[7]
    /\ self.nodes # <<>>

(***************************************************************************)
(* The loops of parse_nodes (SpecWords)                                    *)
(***************************************************************************)
\* C28: the node-counting loop and the node-filling loop of parse_nodes both
\* terminate on every finite input, including an input that contains an
\* instruction whose encoded word count is 0: parse_nodes never ends as a
\* loop that runs for ever.
C28_NodeLoopsTerminate ==
    stage = "parse_nodes" => result # "Hang"

\* The first instruction of the stream has word count 0: the counting loop
\* adds 0 to word_index on every turn and parse_nodes never returns.
C28_ZeroWordCountNeverEnds ==
    /\ pc = "done"
    /\ stage = "parse_nodes"
    /\ result = "Hang"
    /\ Len(spv_words) > STARTING_WORD
    /\ Hi(Word(spv_words, STARTING_WORD)) = 0
    /\ self.nodes = <<>>

(***************************************************************************)
(* Reads within the stream (SpecWords)                                     *)
(***************************************************************************)
\* C29: for every input whose word 0 is the magic number, parse and
\* parse_nodes read only word indices below the input length and end with Ok
\* or Err, inputs shorter than the 5-word header and a final instruction
\* whose declared operands extend past the end of the buffer included:
\* neither the opening of parse nor parse_nodes ends in a panic on an index
\* out of range or in a read outside the stream.
C29_ReadsInBounds ==
    (/\ Len(spv_words) > 0
     /\ Word(spv_words, 0) = MAGIC_NUMBER
     /\ stage \in {"parse", "parse_nodes"})
        => result \notin {"Panic", "Fault"}

\* The stream is the magic number alone or with one more word: the read of
\* word 2, the generator, is out of range and parse panics before any stage.
C29_ShortHeaderPanics ==
    /\ pc = "done"
    /\ stage = "parse"
    /\ result = "Panic"
    /\ Len(spv_words) \in {1, 2}
    /\ Word(spv_words, 0) = MAGIC_NUMBER

(***************************************************************************)
(* The recursion of parse_type (SpecTypes)                                 *)
(***************************************************************************)
\* C30: parse_type terminates (returns Ok or Err) for every node graph,
\* including type ids that refer to each other cyclically, such as a struct
\* with a member pointer whose pointee is that same struct: parse_types never
\* ends with the stack used up by the recursion.
C30_ParseTypeTerminates ==
    stage = "parse_types" => result # "Abort"

\* A struct whose member is a pointer and that pointer's pointee is the
\* struct: parse_type goes from the struct to the pointer and back without
\* end, until the stack is used up.
C30_StructPointingToItselfOverflows ==
    /\ pc = "done"
    /\ stage = "parse_types"
    /\ result = "Abort"
    /\ Len(self.nodes) = 2
    /\ \E i, j \in 1..Len(self.nodes) :
          /\ self.nodes[i].op = OpTypeStruct
          /\ self.nodes[j].op = OpTypePointer
          /\ self.nodes[i].result_id # self.nodes[j].result_id
          /\ Word(spv_words, self.nodes[i].word_offset + 2) = self.nodes[j].result_id
          /\ Word(spv_words, self.nodes[j].word_offset + 3) = self.nodes[i].result_id

====
